---- MODULE Spec2Model ----
(***************************************************************************)
(* Model of mentat's connection layer (src/conn.rs): Metadata, Conn,       *)
(* InProgress, InProgressRead, Store, over a SQLite backing store.         *)
(*                                                                         *)
(* The program state is the persisted store (shared by every connection    *)
(* opened on the same database file), and per Conn: its Metadata, its      *)
(* AttributeCacher behind the RwLock, and the InProgress it has handed out *)
(* (the InProgress owns the rusqlite Transaction and the cache write       *)
(* guard).  One action models one public method, all of it.                *)
(***************************************************************************)
EXTENDS Integers, Sequences, FiniteSets, TLC

\* ------------------------------------------------------------------------
\* Bounds of the model.
\* ------------------------------------------------------------------------
\* No transaction starts once a Conn's generation has reached MaxGen.
MaxGen == 2
\* A transact allocates nothing past USER0 + MaxAlloc in the user partition.
MaxAlloc == 2
\* A transact allocates no tx id past TX0 + 1 + MaxTx.
MaxTx == 3
\* The Repl opens no more than MaxOpen stores after its first.
MaxOpen == 3
\* No store of the Repl takes more than MaxWrites transactions.
MaxWrites == 1

\* ------------------------------------------------------------------------
\* Program constants.
\* ------------------------------------------------------------------------
\* First entid of :db.part/user (0x10000).
USER0 == 65536
\* First entid of :db.part/tx (0x10000000); bootstrap consumes it.
TX0 == 268435456

AllConns == {1, 2}
\* The threads that share a Conn.
Threads == {1, 2}
Parts == {"user", "tx"}
TempIds == {"one", "two"}
Idents == {"k1", "k2"}
\* Values of a user attribute, as written in the transaction text.
Vals == {"100", "200"}
DbIdent == ":db/ident"
\* The entid bootstrap gives :db/ident (mentat_db::entids::DB_IDENT).
DB_IDENT == 1

\* Option<T>
None == [some |-> FALSE]
Some(x) == [some |-> TRUE, v |-> x]

\* The entity place of a term: a tempid ("one") or an entid (65536).
TempId(name) == [temp |-> TRUE, name |-> name, entid |-> 0]
Entid(n) == [temp |-> FALSE, name |-> "", entid |-> n]

\* ------------------------------------------------------------------------
\* Schema: the ident <-> entid map, as a set of <<ident, entid>> pairs.
\* ------------------------------------------------------------------------
SchemaIdents(schema) == {p[1] : p \in schema}

\* Schema::get_entid, as used by Conn::cache (line 587) and by the query
\* engine to resolve an attribute keyword.
GetEntid(schema, k) ==
    IF k \in SchemaIdents(schema)
    THEN Some((CHOOSE p \in schema : p[1] = k)[2])
    ELSE None

\* ------------------------------------------------------------------------
\* Transaction data.  A term is [e, a, v]: e a tempid or an entid, a either
\* :db/ident or the keyword of a user attribute.  A datom is <<e, a, v>>
\* with e an entid and a the attribute's entid.
\* ------------------------------------------------------------------------
Term(e, a, v) == [e |-> e, a |-> a, v |-> v]

\* The entity lists handed to a transact: those of the tests of conn.rs,
\* cut down to two tempids, two idents and one user attribute (:k1, of
\* cardinality one as :foo/bar is).
EntityLists ==
    { <<>>,
      <<Term(TempId("one"), DbIdent, "k1")>>,
      <<Term(TempId("one"), DbIdent, "k1"), Term(TempId("two"), DbIdent, "k2")>>,
      <<Term(TempId("two"), DbIdent, "k1")>>,
      <<Term(TempId("one"), DbIdent, "k1"), Term(TempId("one"), DbIdent, "k2")>>,
      <<Term(Entid(USER0), "k1", "100")>>,
      <<Term(Entid(USER0), "k1", "200")>>,
      <<Term(TempId("two"), "k1", "100")>> }

Range(s) == {s[i] : i \in DOMAIN s}

\* Transaction text: what edn::parse::value and mentat_tx_parser::Tx::parse
\* make of it.
Texts == [form : {"bad_edn", "bad_tx"}, entities : {<<>>}]
           \cup [form : {"ok"}, entities : EntityLists]

\* edn::parse::value(text)
EdnParse(text) ==
    IF text.form = "bad_edn" THEN [ok |-> FALSE, err |-> "EdnParseError"]
    ELSE [ok |-> TRUE, err |-> "", value |-> text]

\* mentat_tx_parser::Tx::parse(&assertion_vector)
TxParse(value) ==
    IF value.form = "bad_tx" THEN [ok |-> FALSE, err |-> "TxParseError", entities |-> <<>>]
    ELSE [ok |-> TRUE, err |-> "", entities |-> value.entities]

\* ------------------------------------------------------------------------
\* The transactor, mentat_db::transact.
\* ------------------------------------------------------------------------
TempIdsOf(entities) == {x.e.name : x \in {y \in Range(entities) : y.e.temp}}

\* The entity that carries ident k in a datom set, if any.
EntityWithIdent(datoms, k) ==
    {d[1] : d \in {x \in datoms : x[2] = DB_IDENT /\ x[3] = k}}

\* Entids a tempid upserts to through its :db/ident assertions.
UpsertTargets(datoms, entities, t) ==
    UNION {EntityWithIdent(datoms, x.v) :
              x \in {y \in Range(entities) : y.e = TempId(t) /\ y.a = DbIdent}}

\* The datoms after asserting `added`: every attribute here has cardinality
\* one, so an added value replaces the entity's value for the attribute.
AddDatoms(datoms, added) ==
    {d \in datoms : ~\E n \in added : n[1] = d[1] /\ n[2] = d[2]} \cup added

\* Tempids in allocation order: "one" before "two".
TempRank(t) == IF t = "one" THEN 0 ELSE 1

\* The report, the next partition map and the next schema (None when the
\* schema did not change) of a transact over the open transaction `db`.
\* On an error `partition_map` is the transactor's own advanced copy, which
\* the caller never sees: ids are allocated before the work that can fail.
Transactor(db, partition_map, schema, entities) ==
    LET tx_id == partition_map["tx"]
        temps == TempIdsOf(entities)
        upserted == {t \in temps : UpsertTargets(db.datoms, entities, t) # {}}
        fresh == temps \ upserted
        freshBefore(t) == Cardinality({u \in fresh : TempRank(u) < TempRank(t)})
        tempids == [t \in temps |->
                      IF t \in upserted
                      THEN CHOOSE e \in UpsertTargets(db.datoms, entities, t) : TRUE
                      ELSE partition_map["user"] + freshBefore(t)]
        next_partition_map ==
            [partition_map EXCEPT !["tx"] = @ + 1,
                                  !["user"] = @ + Cardinality(fresh)]
        unrecognized == {x \in Range(entities) :
                            ~x.e.temp /\ ~(x.e.entid < partition_map["user"])}
        unknownAttr == {x \in Range(entities) : x.a \notin SchemaIdents(schema)}
        identsOf(t) == {x.v : x \in {y \in Range(entities) : y.e = TempId(t) /\ y.a = DbIdent}}
        conflicting == {t \in temps :
                            \/ Cardinality(UpsertTargets(db.datoms, entities, t)) > 1
                            \/ Cardinality(identsOf(t)) > 1
                            \/ \E u \in temps : u # t /\ identsOf(u) \cap identsOf(t) # {}}
        resolve(e) == IF e.temp THEN tempids[e.name] ELSE e.entid
        added == {<<resolve(x.e), GetEntid(schema, x.a).v, x.v>> : x \in Range(entities)}
        idents == {<<x.v, resolve(x.e)>> :
                      x \in {y \in Range(entities) : y.a = DbIdent}}
        err == IF unrecognized # {} THEN "UnrecognizedEntid"
               ELSE IF unknownAttr # {} THEN "UnrecognizedIdent"
               ELSE IF conflicting # {} THEN "NotYetImplemented"
               ELSE ""
    IN  IF err # ""
        THEN [ok |-> FALSE, err |-> err, report |-> None,
              partition_map |-> next_partition_map, schema |-> None, db |-> db]
        ELSE [ok |-> TRUE, err |-> "",
              report |-> Some([tx_id |-> tx_id, tempids |-> tempids,
                               allocated |-> {tempids[t] : t \in fresh}]),
              partition_map |-> next_partition_map,
              schema |-> IF idents \subseteq schema THEN None ELSE Some(schema \cup idents),
              db |-> [datoms |-> AddDatoms(db.datoms, added),
                      partition_map |-> next_partition_map,
                      schema |-> schema \cup idents]]

\* mentat_db::transact_terms: the same work over pre-built terms.
TransactorTerms(db, partition_map, schema, terms) ==
    Transactor(db, partition_map, schema, terms)

\* ------------------------------------------------------------------------
\* The query engine: [:find [?x ...] :where [?x attribute v]] over a view
\* of the store, the attribute keyword resolved against a schema.
\* ------------------------------------------------------------------------
\* The two asked here: which entity has ident :k1, which has 100 for :k1.
Queries == {[a |-> DbIdent, v |-> "k1"], [a |-> "k1", v |-> "100"]}

QOnce(db, schema, query) ==
    LET a == GetEntid(schema, query.a)
    IN  IF ~a.some
        THEN [ok |-> FALSE, results |-> {}]
        ELSE [ok |-> TRUE,
              results |-> {d[1] : d \in {x \in db.datoms : x[2] = a.v /\ x[3] = query.v}}]

\* ------------------------------------------------------------------------
\* State.
\* ------------------------------------------------------------------------
VARIABLES
    store,       \* the committed contents of the database file
    writer,      \* the Conn whose connection holds SQLite's write lock, or 0
    connected,   \* the Conns that exist
    metadata,    \* Conn.metadata: generation, partition_map, schema (an Arc)
    cache,       \* Conn.attribute_cache: attribute entid -> cached <<e, v>>
    cache_lock,  \* the RwLock of Conn.attribute_cache: "free" or "write"
    ip,          \* the InProgress borrowed from each Conn, or None
    hist,        \* history of each Conn, for stating properties
    res,         \* the last call and what it returned
    thread,      \* each thread: the call it is inside and how far it has got
    mutex,       \* the Mutex of Conn.metadata: the thread that holds it, or 0
    rwlock,      \* the RwLock of Conn.attribute_cache: its writer, its readers
    repl         \* the command line's Repl: its path and its Store, and the
                 \* files it has written

vars == <<store, writer, connected, metadata, cache, cache_lock, ip, hist, res,
          thread, mutex, rwlock, repl>>

\* The whole program state as one value, so that a method can be applied to
\* the state another method leaves (Conn::transact calls three).
World ==
    [store |-> store, writer |-> writer, connected |-> connected,
     metadata |-> metadata, cache |-> cache, cache_lock |-> cache_lock,
     ip |-> ip, hist |-> hist]

\* What db::ensure_current_version leaves in, and reads from, a fresh store.
Bootstrap ==
    [datoms |-> {},
     partition_map |-> [p \in Parts |-> IF p = "user" THEN USER0 ELSE TX0 + 1],
     schema |-> {<<DbIdent, DB_IDENT>>}]

NoAlloc == [p \in Parts |-> 0]

\* The history of an InProgress: the metadata and the store when it began,
\* and every successful transact's input and report since (entids: the
\* entids its reports gave as allocated, txs: their tx ids).
NoTxHist ==
    [begin_meta |-> None, begin_store |-> None, first |-> None,
     written |-> {}, alloc |-> NoAlloc, entids |-> {}, txs |-> {}]

\* initial: the partition map the Conn was made with.  committed: the ids
\* its committed transactions allocated.  committed_written: the datoms they
\* wrote.  cur: the open transaction.  rolled_back: see HistEnd.
\* rejected: the user index at the last Conn::transact that the transactor
\* rejected, while every call since has been a failed Conn::transact.
\* handle: the schema handle that the last kept current_schema returned.
\* published: what the last successful commit had to publish, read off the
\* history of its transaction (at first, what the Conn was made with).
\* in_flight: the transactions begun on the Conn and not yet ended.
\* ids: the tx ids and the entids that the reports of the Conn's committed
\* transactions gave.
NoHist ==
    [initial |-> Bootstrap.partition_map, committed |-> NoAlloc,
     ids |-> [tx |-> {}, user |-> {}],
     committed_written |-> {}, cur |-> NoTxHist, rolled_back |-> None,
     rejected |-> None, handle |-> None, in_flight |-> 0,
     published |-> [generation |-> 0, partition_map |-> Bootstrap.partition_map,
                    schema |-> Bootstrap.schema]]

\* transacts: how many transacts had succeeded in the InProgress the call
\* was made on.  prior: the Conn's hist.rejected when a Conn::transact was made.
\* read: the call was made on, or dropped, an InProgressRead.
NoRes ==
    [conn |-> 0, op |-> "none", input |-> None, result |-> "Ok", err |-> "",
     report |-> None, out |-> None, events |-> <<>>, transacts |-> 0,
     prior |-> None, read |-> FALSE]

Ret(w, result, err, report, out, events) ==
    [w |-> w, result |-> result, err |-> err, report |-> report, out |-> out,
     events |-> events]

\* AttributeCacher::new: no attribute registered, no value cached.
AttributeCacherNew == [registered |-> {}, values |-> {}]

\* Metadata::new
NewMetadata(generation, partition_map, schema) ==
    [generation |-> generation, partition_map |-> partition_map, schema |-> schema]

\* Arc::new(schema): a new allocation, told apart from every older one by id.
ArcNew(id, schema) == [arc |-> id, val |-> schema]

\* Conn::new
ConnNew(partition_map, schema) ==
    NewMetadata(0, partition_map, ArcNew(0, schema))

\* A thread outside every call; owns: the Conn whose InProgress it has, or 0.
Out(owns) == [op |-> "none", conn |-> 0, input |-> None, pc |-> 0, owns |-> owns]

\* ------------------------------------------------------------------------
\* The Repl of the command line: a path and the Store opened on it.
\* ------------------------------------------------------------------------
\* The paths given to .open; the empty path names no file (db_name calls it
\* the in-memory db).
Paths == {"", "a", "b"}
Files == Paths \ {""}

\* Store::open.  A Store is known by the order in which it was opened (id);
\* datoms: how many transactions its database holds, those of the file for
\* a path, none for a new in-memory database.  opens: whether the
\* connection can be made and the store initialized.
StoreOpen(files, path, id, opens) ==
    IF ~opens THEN [ok |-> FALSE, store |-> None]
    ELSE [ok |-> TRUE,
          store |-> Some([id |-> id, path |-> path,
                          datoms |-> IF path = "" THEN 0 ELSE files[path]])]

\* Repl::new: an in-memory store and the empty path.  files: what each file
\* holds; opened: the stores opened so far; last: the last command.
ReplNew ==
    [path |-> "",
     store |-> StoreOpen([f \in Files |-> 0], "", 1, TRUE).store.v,
     files |-> [f \in Files |-> 0],
     opened |-> 1,
     last |-> [op |-> "new", path |-> "", opens |-> TRUE, result |-> "Ok"]]

\* open with a slip: the store is opened only when the path differs.
ReplOpenOnlyOtherPath(self, path, opens) ==
    IF path # self.path
    THEN LET next == StoreOpen(self.files, path, self.opened + 1, opens)
         IN  IF ~next.ok
             THEN [result |-> "Err", self |-> self]
             ELSE [result |-> "Ok",
                   self |-> [self EXCEPT !.path = path, !.store = next.store.v,
                                         !.opened = @ + 1]]
    ELSE [result |-> "Ok", self |-> self]

\* Repl::open
ReplOpen(self, path, opens) ==
    IF self.path = "" \/ path # self.path
    THEN LET next == StoreOpen(self.files, path, self.opened + 1, opens)
         IN  IF ~next.ok
             THEN [result |-> "Err", self |-> self]
             ELSE [result |-> "Ok",
                   self |-> [self EXCEPT !.path = path, !.store = next.store.v,
                                         !.opened = @ + 1]]
    ELSE [result |-> "Ok", self |-> self]

\* Repl::close: the error of open is printed, not returned.
ReplClose(self, opens) ==
    [result |-> "Ok", self |-> ReplOpen(self, "", opens).self]

\* Repl::transact: a transaction begun on the store, transacted and
\* committed; a file store's transaction is in its file.
ReplTransact(self, accepted) ==
    IF ~accepted THEN [result |-> "Err", self |-> self]
    ELSE [result |-> "Ok",
          self |-> [self EXCEPT
                      !.store.datoms = @ + 1,
                      !.files = IF self.path = "" THEN @
                                ELSE [@ EXCEPT ![self.path] = @ + 1]]]

Init ==
    /\ repl = ReplNew
    /\ thread = [t \in Threads |-> Out(0)]
    /\ mutex = [c \in AllConns |-> 0]
    /\ rwlock = [c \in AllConns |-> [writer |-> 0, readers |-> {}]]
    /\ store = Bootstrap
    /\ writer = 0
    /\ connected = {1}
    /\ metadata = [c \in AllConns |-> ConnNew(Bootstrap.partition_map, Bootstrap.schema)]
    /\ cache = [c \in AllConns |-> AttributeCacherNew]
    /\ cache_lock = [c \in AllConns |-> "free"]
    /\ ip = [c \in AllConns |-> None]
    /\ hist = [c \in AllConns |-> NoHist]
    /\ res = NoRes

\* ------------------------------------------------------------------------
\* rusqlite: transactions of one connection on the shared file.
\* ------------------------------------------------------------------------
\* Connection::transaction_with_behavior.  BEGIN IMMEDIATE takes the write
\* lock or fails with SQLITE_BUSY; BEGIN DEFERRED takes nothing.
SqliteBegin(w, c, behavior) ==
    IF behavior = "Immediate" /\ w.writer # 0
    THEN [ok |-> FALSE, w |-> w, tx |-> None]
    ELSE [ok |-> TRUE,
          w |-> [w EXCEPT !.writer = IF behavior = "Immediate" THEN c ELSE @],
          tx |-> Some([behavior |-> behavior, db |-> w.store])]

\* Transaction::commit, when SQLite accepts it.
SqliteCommit(w, c, tx) ==
    [w EXCEPT !.store = tx.db, !.writer = IF @ = c THEN 0 ELSE @]

\* Transaction::rollback, and the drop of a Transaction (DropBehavior::Rollback).
SqliteRollback(w, c, tx) ==
    [w EXCEPT !.writer = IF @ = c THEN 0 ELSE @]

\* ------------------------------------------------------------------------
\* History kept beside the program state.
\* ------------------------------------------------------------------------
\* The datoms a successful transact wrote, read off its input and report.
Written(schema, entities, report) ==
    {<<IF x.e.temp THEN report.tempids[x.e.name] ELSE x.e.entid,
       GetEntid(schema, x.a).v, x.v>> : x \in Range(entities)}

\* The idents that a set of datoms defines.
IdentsOf(datoms) == {<<d[3], d[1]>> : d \in {x \in datoms : x[2] = DB_IDENT}}

HistBegin(w, c) ==
    [w EXCEPT !.hist[c].cur =
                  [NoTxHist EXCEPT !.begin_meta = Some(w.metadata[c]),
                                   !.begin_store = Some(w.store)],
              !.hist[c].in_flight = @ + 1]

HistTransact(w, c, entities, report) ==
    [w EXCEPT !.hist[c].cur.first =
                  IF @.some THEN @ ELSE Some([entities |-> entities, report |-> report]),
              !.hist[c].rolled_back = IF w.hist[c].cur.first.some THEN None ELSE @,
              !.hist[c].cur.written =
                  AddDatoms(@, Written(w.ip[c].schema, entities, report)),
              !.hist[c].cur.alloc =
                  [p \in Parts |-> @[p] + IF p = "tx" THEN 1
                                          ELSE Cardinality(report.allocated)],
              !.hist[c].cur.entids = @ \cup report.allocated,
              !.hist[c].cur.txs = @ \cup {report.tx_id}]

\* how: "commit", "rollback", "drop", "race" or "commit_failed".  Of a
\* transaction that rolled back, the metadata at its begin and its first
\* successful transact are remembered, until the next transaction ends or
\* makes a second transact.
HistEnd(w, c, how) ==
    [w EXCEPT !.hist[c].cur = NoTxHist,
              !.hist[c].in_flight = @ - 1,
              !.hist[c].rolled_back =
                  IF how = "rollback" /\ w.hist[c].cur.first.some
                  THEN Some([begin_meta |-> w.hist[c].cur.begin_meta.v,
                             entities |-> w.hist[c].cur.first.v.entities,
                             report |-> w.hist[c].cur.first.v.report])
                  ELSE None,
              !.hist[c].committed =
                  [p \in Parts |-> @[p] + IF how = "commit" THEN w.hist[c].cur.alloc[p]
                                          ELSE 0],
              !.hist[c].ids =
                  IF how = "commit"
                  THEN [tx |-> @.tx \cup w.hist[c].cur.txs,
                        user |-> @.user \cup w.hist[c].cur.entids]
                  ELSE @,
              !.hist[c].committed_written =
                  IF how = "commit" THEN AddDatoms(@, w.hist[c].cur.written) ELSE @,
              !.hist[c].rejected = IF how = "commit" THEN None ELSE @,
              !.hist[c].published =
                  IF how = "commit"
                  THEN LET cur == w.hist[c].cur
                       IN  [generation |-> cur.begin_meta.v.generation + 1,
                            partition_map |->
                                [p \in Parts |->
                                    cur.begin_meta.v.partition_map[p] + cur.alloc[p]],
                            schema |-> cur.begin_meta.v.schema.val
                                           \cup IdentsOf(cur.written)]
                  ELSE @]

\* The caller of current_schema keeps the handle it got.
HistHandle(w, c, handle) ==
    [w EXCEPT !.hist[c].handle = Some(handle)]

\* A Conn::transact that the transactor rejected, made at user index n.
HistRejected(w, c, n) ==
    [w EXCEPT !.hist[c].rejected = Some(n)]

\* ------------------------------------------------------------------------
\* Conn: beginning a transaction.
\* ------------------------------------------------------------------------
\* begin with a slip: the InProgress is handed the generation its commit is
\* to produce, not the one the metadata has.
BeginTransactionWithBehaviorNextGeneration(w, c, behavior) ==
    LET b == SqliteBegin(w, c, behavior)
        current == b.w.metadata[c]
        in_progress ==
            [some |-> TRUE, read |-> FALSE,
             transaction |-> b.tx.v,
             generation |-> current.generation + 1,
             partition_map |-> current.partition_map,
             schema |-> current.schema.val]
    IN  IF ~b.ok
        THEN Ret(w, "Err", "Busy", None, None, <<"sqlite.begin">>)
        ELSE Ret(HistBegin([b.w EXCEPT !.ip[c] = in_progress,
                                       !.cache_lock[c] = "write"], c),
                 "Ok", "", None, None,
                 <<"sqlite.begin", "metadata.lock", "metadata.unlock", "cache.write">>)

\* begin with a slip: the InProgress keeps the MutexGuard it read the
\* metadata through, not a reference to the Mutex.
BeginTransactionWithBehaviorKeepsGuard(w, c, behavior) ==
    LET b == SqliteBegin(w, c, behavior)
        current == b.w.metadata[c]
        in_progress ==
            [some |-> TRUE, read |-> FALSE,
             transaction |-> b.tx.v,
             generation |-> current.generation,
             partition_map |-> current.partition_map,
             schema |-> current.schema.val]
    IN  IF ~b.ok
        THEN Ret(w, "Err", "Busy", None, None, <<"sqlite.begin">>)
        ELSE Ret(HistBegin([b.w EXCEPT !.ip[c] = in_progress,
                                       !.cache_lock[c] = "write"], c),
                 "Ok", "", None, None,
                 <<"sqlite.begin", "metadata.lock", "cache.write">>)

\* begin with a slip: the InProgress, cache write guard included, is built
\* inside the block that holds the mutex.
BeginTransactionWithBehaviorInsideMutex(w, c, behavior) ==
    LET b == SqliteBegin(w, c, behavior)
        current == b.w.metadata[c]
        in_progress ==
            [some |-> TRUE, read |-> FALSE,
             transaction |-> b.tx.v,
             generation |-> current.generation,
             partition_map |-> current.partition_map,
             schema |-> current.schema.val]
    IN  IF ~b.ok
        THEN Ret(w, "Err", "Busy", None, None, <<"sqlite.begin">>)
        ELSE Ret(HistBegin([b.w EXCEPT !.ip[c] = in_progress,
                                       !.cache_lock[c] = "write"], c),
                 "Ok", "", None, None,
                 <<"sqlite.begin", "metadata.lock", "cache.write", "metadata.unlock">>)

\* Conn::begin_transaction_with_behavior
BeginTransactionWithBehavior(w, c, behavior) ==
    LET b == SqliteBegin(w, c, behavior)
        current == b.w.metadata[c]
        in_progress ==
            [some |-> TRUE, read |-> FALSE,
             transaction |-> b.tx.v,
             generation |-> current.generation,
             partition_map |-> current.partition_map,
             schema |-> current.schema.val]
    IN  IF ~b.ok
        THEN Ret(w, "Err", "Busy", None, None, <<"sqlite.begin">>)
        ELSE Ret(HistBegin([b.w EXCEPT !.ip[c] = in_progress,
                                       !.cache_lock[c] = "write"], c),
                 "Ok", "", None, None,
                 <<"sqlite.begin", "metadata.lock", "metadata.unlock", "cache.write">>)

\* Conn::begin_read with a slip: the connection reads what other
\* connections have not committed (PRAGMA read_uncommitted on a shared
\* cache), so the transaction sees the open writer's work.
BeginReadUncommitted(w, c) ==
    LET r == BeginTransactionWithBehavior(w, c, "Deferred")
        dirty == IF w.writer # 0 THEN w.ip[w.writer].transaction.db ELSE w.store
    IN  IF r.result = "Ok"
        THEN [r EXCEPT !.w.ip[c].read = TRUE, !.w.ip[c].transaction.db = dirty]
        ELSE r

\* Conn::begin_read with a slip: a read transaction takes the cache's read
\* lock, which other readers can share.
BeginReadSharedCache(w, c) ==
    LET r == BeginTransactionWithBehavior(w, c, "Deferred")
    IN  IF r.result = "Ok"
        THEN [r EXCEPT !.w.ip[c].read = TRUE,
                       !.w.cache_lock[c] = "read",
                       !.events = <<"sqlite.begin", "metadata.lock",
                                    "metadata.unlock", "cache.read">>]
        ELSE r

\* Conn::begin_read
BeginRead(w, c) ==
    LET r == BeginTransactionWithBehavior(w, c, "Deferred")
    IN  IF r.result = "Ok" THEN [r EXCEPT !.w.ip[c].read = TRUE] ELSE r

\* Conn::begin_transaction with a slip: the cache write lock is not taken at
\* begin; the InProgress is to take it when it first needs the cache.
BeginTransactionLazyCacheLock(w, c) ==
    LET r == BeginTransactionWithBehavior(w, c, "Immediate")
    IN  IF r.result = "Ok"
        THEN [r EXCEPT !.w.cache_lock[c] = "free",
                       !.events = <<"sqlite.begin", "metadata.lock", "metadata.unlock">>]
        ELSE r

\* Conn::begin_transaction with a slip: the transaction is begun DEFERRED,
\* which takes no write lock.
BeginTransactionDeferred(w, c) ==
    BeginTransactionWithBehavior(w, c, "Deferred")

\* Conn::begin_transaction
BeginTransaction(w, c) ==
    BeginTransactionWithBehavior(w, c, "Immediate")

\* ------------------------------------------------------------------------
\* InProgress.
\* ------------------------------------------------------------------------
\* transact_entities with a slip: the transactor works on the InProgress's
\* own partition map, so what it allocated before failing stays allocated.
TransactEntitiesKeepAlloc(self, entities) ==
    LET r == Transactor(self.transaction.db, self.partition_map, self.schema, entities)
    IN  IF ~r.ok
        THEN [ok |-> FALSE, err |-> r.err, report |-> None,
              self |-> [self EXCEPT !.transaction.db = r.db,
                                    !.partition_map = r.partition_map]]
        ELSE [ok |-> TRUE, err |-> "", report |-> r.report,
              self |-> [self EXCEPT !.transaction.db = r.db,
                                    !.partition_map = r.partition_map,
                                    !.schema = IF r.schema.some THEN r.schema.v ELSE @]]

\* transact_entities with a slip: the partition map the transactor returns
\* is not stored, so the next transact allocates from the same index.
TransactEntitiesDropsPartitionMap(self, entities) ==
    LET r == Transactor(self.transaction.db, self.partition_map, self.schema, entities)
    IN  IF ~r.ok
        THEN [ok |-> FALSE, err |-> r.err, report |-> None,
              self |-> [self EXCEPT !.transaction.db = r.db]]
        ELSE [ok |-> TRUE, err |-> "", report |-> r.report,
              self |-> [self EXCEPT !.transaction.db = r.db,
                                    !.schema = IF r.schema.some THEN r.schema.v ELSE @]]

\* InProgress::transact_entities, on the InProgress alone.
TransactEntities(self, entities) ==
    LET r == Transactor(self.transaction.db, self.partition_map, self.schema, entities)
    IN  IF ~r.ok
        THEN [ok |-> FALSE, err |-> r.err, report |-> None,
              self |-> [self EXCEPT !.transaction.db = r.db]]
        ELSE [ok |-> TRUE, err |-> "", report |-> r.report,
              self |-> [self EXCEPT !.transaction.db = r.db,
                                    !.partition_map = r.partition_map,
                                    !.schema = IF r.schema.some THEN r.schema.v ELSE @]]

\* InProgress::transact_terms, on the InProgress alone.
TransactTerms(self, terms) ==
    LET r == TransactorTerms(self.transaction.db, self.partition_map, self.schema, terms)
    IN  IF ~r.ok
        THEN [ok |-> FALSE, err |-> r.err, report |-> None,
              self |-> [self EXCEPT !.transaction.db = r.db]]
        ELSE [ok |-> TRUE, err |-> "", report |-> r.report,
              self |-> [self EXCEPT !.transaction.db = r.db,
                                    !.partition_map = r.partition_map,
                                    !.schema = IF r.schema.some THEN r.schema.v ELSE @]]

\* Transacted with a slip: the partition map is the Conn's own, not a clone,
\* so a successful transact advances the metadata as well.
TransactedWriteThrough(w, c, t, entities) ==
    IF ~t.ok
    THEN Ret([w EXCEPT !.ip[c] = t.self], "Err", t.err, None, None, <<"transact">>)
    ELSE Ret([HistTransact(w, c, entities, t.report.v) EXCEPT
                 !.ip[c] = t.self,
                 !.metadata[c].partition_map = t.self.partition_map],
             "Ok", "", t.report, None, <<"transact">>)

\* The call of one of the two on the InProgress of Conn c.
Transacted(w, c, t, entities) ==
    IF ~t.ok
    THEN Ret([w EXCEPT !.ip[c] = t.self], "Err", t.err, None, None, <<"transact">>)
    ELSE Ret([HistTransact(w, c, entities, t.report.v) EXCEPT !.ip[c] = t.self],
             "Ok", "", t.report, None, <<"transact">>)

InProgressTransactEntities(w, c, entities) ==
    Transacted(w, c, TransactEntities(w.ip[c], entities), entities)

InProgressTransactTerms(w, c, terms) ==
    Transacted(w, c, TransactTerms(w.ip[c], terms), terms)

\* InProgress::transact
InProgressTransact(w, c, transaction) ==
    LET assertion_vector == EdnParse(transaction)
        entities == TxParse(assertion_vector.value)
    IN  IF ~assertion_vector.ok
        THEN Ret(w, "Err", assertion_vector.err, None, None, <<>>)
        ELSE IF ~entities.ok
        THEN Ret(w, "Err", entities.err, None, None, <<>>)
        ELSE InProgressTransactEntities(w, c, entities.entities)

\* The drop with a slip: the Transaction is set to commit when dropped
\* (DropBehavior::Commit).
DropInProgressCommits(w, c) ==
    [SqliteCommit(w, c, w.ip[c].transaction) EXCEPT
        !.ip[c] = None, !.cache_lock[c] = "free"]

\* The drop of an InProgress: its Transaction rolls back and its cache
\* write guard unlocks.
DropInProgress(w, c) ==
    [SqliteRollback(w, c, w.ip[c].transaction) EXCEPT
        !.ip[c] = None, !.cache_lock[c] = "free"]

\* rollback with a slip: the SQLite transaction is committed.
RollbackCommits(w, c) ==
    LET w1 == SqliteCommit(w, c, w.ip[c].transaction)
    IN  Ret(HistEnd([w1 EXCEPT !.ip[c] = None, !.cache_lock[c] = "free"], c, "rollback"),
            "Ok", "", None, None, <<"sqlite.commit", "cache.unlock">>)

\* rollback with a slip: the draft partition map is written back.
RollbackLeaks(w, c) ==
    LET w1 == SqliteRollback(w, c, w.ip[c].transaction)
    IN  Ret(HistEnd([w1 EXCEPT !.metadata[c].partition_map = w.ip[c].partition_map,
                               !.ip[c] = None, !.cache_lock[c] = "free"], c, "rollback"),
            "Ok", "", None, None, <<"sqlite.rollback", "cache.unlock">>)

\* InProgress::rollback
Rollback(w, c) ==
    LET w1 == SqliteRollback(w, c, w.ip[c].transaction)
    IN  Ret(HistEnd([w1 EXCEPT !.ip[c] = None, !.cache_lock[c] = "free"], c, "rollback"),
            "Ok", "", None, None, <<"sqlite.rollback", "cache.unlock">>)

\* An InProgress or InProgressRead going out of scope.
Drop(w, c) ==
    Ret(HistEnd(DropInProgress(w, c), c, "drop"),
        "Ok", "", None, None, <<"sqlite.rollback", "cache.unlock">>)

\* Publish with a slip: the new schema is written into the allocation the
\* metadata's Arc points to (Arc::get_mut), not into a new one.
PublishInPlace(metadata_, self) ==
    [generation |-> metadata_.generation + 1,
     partition_map |-> self.partition_map,
     schema |-> [arc |-> metadata_.schema.arc, val |-> self.schema]]

\* Publish with a slip: the generation and the schema are written, the
\* partition map is not.
PublishKeepsPartitionMap(metadata_, self) ==
    [generation |-> metadata_.generation + 1,
     partition_map |-> metadata_.partition_map,
     schema |-> IF self.schema # metadata_.schema.val
                THEN ArcNew(metadata_.generation + 1, self.schema)
                ELSE metadata_.schema]

\* Publish with a slip: a commit that allocated nothing leaves the generation.
PublishSkipEmpty(metadata_, self) ==
    [generation |-> IF self.partition_map = metadata_.partition_map
                    THEN metadata_.generation
                    ELSE metadata_.generation + 1,
     partition_map |-> self.partition_map,
     schema |-> IF self.schema # metadata_.schema.val
                THEN ArcNew(metadata_.generation + 1, self.schema)
                ELSE metadata_.schema]

\* Publish with a slip: the schema is put in a new Arc on every commit,
\* changed or not.
PublishAlwaysNewArc(metadata_, self) ==
    [generation |-> metadata_.generation + 1,
     partition_map |-> self.partition_map,
     schema |-> ArcNew(metadata_.generation + 1, self.schema)]

\* InProgress::commit, lines 361-370: what a successful commit publishes.
Publish(metadata_, self) ==
    [generation |-> metadata_.generation + 1,
     partition_map |-> self.partition_map,
     schema |-> IF self.schema # metadata_.schema.val
                THEN ArcNew(metadata_.generation + 1, self.schema)
                ELSE metadata_.schema]

\* Commit with a slip: the metadata is published before SQLite's COMMIT is
\* known to have succeeded.
CommitPublishOnFailure(w, c, sqlite_ok) ==
    LET self == w.ip[c]
        published == [w EXCEPT !.metadata[c] = Publish(@, self)]
    IN  IF self.generation # w.metadata[c].generation
        THEN Ret(HistEnd(DropInProgress(w, c), c, "race"),
                 "Err", "Race", None, None,
                 <<"metadata.lock", "metadata.unlock", "sqlite.rollback", "cache.unlock">>)
        ELSE IF ~sqlite_ok
        THEN Ret(HistEnd(DropInProgress(published, c), c, "commit_failed"),
                 "Err", "Backing", None, None,
                 <<"metadata.lock", "metadata.write", "sqlite.commit.failed",
                   "sqlite.rollback", "metadata.unlock", "cache.unlock">>)
        ELSE Ret(HistEnd([SqliteCommit(published, c, self.transaction) EXCEPT
                             !.ip[c] = None, !.cache_lock[c] = "free"], c, "commit"),
                 "Ok", "", None, None,
                 <<"metadata.lock", "metadata.write", "sqlite.commit",
                   "metadata.unlock", "cache.unlock">>)

\* Commit with a slip: the mutex guard is dropped once SQLite's COMMIT has
\* returned and the mutex is locked again to publish.
CommitUnlocksBeforePublish(w, c, sqlite_ok) ==
    LET self == w.ip[c]
    IN  IF self.generation # w.metadata[c].generation
        THEN Ret(HistEnd(DropInProgress(w, c), c, "race"),
                 "Err", "Race", None, None,
                 <<"metadata.lock", "metadata.unlock", "sqlite.rollback", "cache.unlock">>)
        ELSE IF ~sqlite_ok
        THEN Ret(HistEnd(DropInProgress(w, c), c, "commit_failed"),
                 "Err", "Backing", None, None,
                 <<"metadata.lock", "sqlite.commit.failed", "sqlite.rollback",
                   "metadata.unlock", "cache.unlock">>)
        ELSE LET w1 == SqliteCommit(w, c, self.transaction)
             IN  Ret(HistEnd([w1 EXCEPT !.metadata[c] = Publish(@, self),
                                        !.ip[c] = None,
                                        !.cache_lock[c] = "free"], c, "commit"),
                     "Ok", "", None, None,
                     <<"metadata.lock", "sqlite.commit", "metadata.unlock",
                       "metadata.lock", "metadata.write", "metadata.unlock",
                       "cache.unlock">>)

\* Commit with a slip: the generations are compared after SQLite's COMMIT.
CommitChecksAfterCommit(w, c, sqlite_ok) ==
    LET self == w.ip[c]
        w1 == SqliteCommit(w, c, self.transaction)
    IN  IF ~sqlite_ok
        THEN Ret(HistEnd(DropInProgress(w, c), c, "commit_failed"),
                 "Err", "Backing", None, None,
                 <<"metadata.lock", "sqlite.commit.failed", "sqlite.rollback",
                   "metadata.unlock", "cache.unlock">>)
        ELSE IF self.generation # w.metadata[c].generation
        THEN Ret(HistEnd([w1 EXCEPT !.ip[c] = None, !.cache_lock[c] = "free"], c, "race"),
                 "Err", "Race", None, None,
                 <<"metadata.lock", "sqlite.commit", "metadata.unlock", "cache.unlock">>)
        ELSE Ret(HistEnd([w1 EXCEPT !.metadata[c] = Publish(@, self),
                                    !.ip[c] = None,
                                    !.cache_lock[c] = "free"], c, "commit"),
                 "Ok", "", None, None,
                 <<"metadata.lock", "sqlite.commit", "metadata.write",
                   "metadata.unlock", "cache.unlock">>)

\* commit with a slip: on a race the InProgress is forgotten (mem::forget)
\* with its transaction and its cache guard, not dropped.
CommitRaceForgets(w, c, sqlite_ok) ==
    LET self == w.ip[c]
    IN  IF self.generation # w.metadata[c].generation
        THEN Ret(HistEnd([w EXCEPT !.ip[c] = None], c, "race"),
                 "Err", "Race", None, None,
                 <<"metadata.lock", "metadata.unlock">>)
        ELSE IF ~sqlite_ok
        THEN Ret(HistEnd(DropInProgress(w, c), c, "commit_failed"),
                 "Err", "Backing", None, None,
                 <<"metadata.lock", "sqlite.commit.failed", "sqlite.rollback",
                   "metadata.unlock", "cache.unlock">>)
        ELSE LET w1 == SqliteCommit(w, c, self.transaction)
             IN  Ret(HistEnd([w1 EXCEPT !.metadata[c] = Publish(@, self),
                                        !.ip[c] = None,
                                        !.cache_lock[c] = "free"], c, "commit"),
                     "Ok", "", None, None,
                     <<"metadata.lock", "sqlite.commit", "metadata.write",
                       "metadata.unlock", "cache.unlock">>)

\* InProgress::commit.  sqlite_ok: whether SQLite accepts the COMMIT.
Commit(w, c, sqlite_ok) ==
    LET self == w.ip[c]
    IN  IF self.generation # w.metadata[c].generation
        THEN Ret(HistEnd(DropInProgress(w, c), c, "race"),
                 "Err", "Race", None, None,
                 <<"metadata.lock", "metadata.unlock", "sqlite.rollback", "cache.unlock">>)
        ELSE IF ~sqlite_ok
        THEN Ret(HistEnd(DropInProgress(w, c), c, "commit_failed"),
                 "Err", "Backing", None, None,
                 <<"metadata.lock", "sqlite.commit.failed", "sqlite.rollback",
                   "metadata.unlock", "cache.unlock">>)
        ELSE LET w1 == SqliteCommit(w, c, self.transaction)
             IN  Ret(HistEnd([w1 EXCEPT !.metadata[c] = Publish(@, self),
                                        !.ip[c] = None,
                                        !.cache_lock[c] = "free"], c, "commit"),
                     "Ok", "", None, None,
                     <<"metadata.lock", "sqlite.commit", "metadata.write",
                       "metadata.unlock", "cache.unlock">>)

\* q_once with a slip: the query is resolved against the Conn's schema, not
\* the InProgress's draft.
InProgressQOnceConnSchema(w, c, query) ==
    Ret(w, "Ok", "", None,
        Some(QOnce(w.ip[c].transaction.db, w.metadata[c].schema.val, query)),
        <<"query">>)

\* InProgress::q_once
InProgressQOnce(w, c, query) ==
    Ret(w, "Ok", "", None, Some(QOnce(w.ip[c].transaction.db, w.ip[c].schema, query)),
        <<"query">>)

\* ------------------------------------------------------------------------
\* Conn: the calls that take no InProgress.
\* ------------------------------------------------------------------------
\* Conn::q_once.  The connection is in autocommit mode: it reads the store.
ConnQOnce(w, c, query) ==
    Ret(w, "Ok", "", None, Some(QOnce(w.store, w.metadata[c].schema.val, query)),
        <<"metadata.lock", "query", "metadata.unlock">>)

\* Conn::transact with a slip: the transaction is begun before the text is
\* parsed, and dropped when the text does not parse.
ConnTransactBeginsFirst(w, c, transaction, sqlite_ok) ==
    LET begun == BeginTransaction(w, c)
        assertion_vector == EdnParse(transaction)
        entities == TxParse(assertion_vector.value)
        unparsed == Drop(begun.w, c)
        report == InProgressTransactEntities(begun.w, c, entities.entities)
        dropped == Drop(report.w, c)
        committed == Commit(report.w, c, sqlite_ok)
    IN  IF begun.result # "Ok"
        THEN begun
        ELSE IF ~assertion_vector.ok
        THEN Ret(unparsed.w, "Err", assertion_vector.err, None, None,
                 begun.events \o unparsed.events)
        ELSE IF ~entities.ok
        THEN Ret(unparsed.w, "Err", entities.err, None, None,
                 begun.events \o unparsed.events)
        ELSE IF report.result # "Ok"
        THEN Ret(HistRejected(dropped.w, c, w.metadata[c].partition_map["user"]),
                 "Err", report.err, None, None,
                 begun.events \o report.events \o dropped.events)
        ELSE Ret(committed.w, committed.result, committed.err,
                 IF committed.result = "Ok" THEN report.report ELSE None, None,
                 begun.events \o report.events \o committed.events)

\* Conn::transact with a slip: the transactor is handed the Conn's own
\* partition map, not the InProgress's clone, so the ids it takes before it
\* rejects the entities stay taken.
ConnTransactKeepsAllocation(w, c, transaction, sqlite_ok) ==
    LET assertion_vector == EdnParse(transaction)
        entities == TxParse(assertion_vector.value)
        begun == BeginTransaction(w, c)
        report == InProgressTransactEntities(begun.w, c, entities.entities)
        dropped == Drop(report.w, c)
        committed == Commit(report.w, c, sqlite_ok)
        taken == Transactor(begun.w.ip[c].transaction.db, begun.w.ip[c].partition_map,
                            begun.w.ip[c].schema, entities.entities).partition_map
    IN  IF ~assertion_vector.ok
        THEN Ret(w, "Err", assertion_vector.err, None, None, <<>>)
        ELSE IF ~entities.ok
        THEN Ret(w, "Err", entities.err, None, None, <<>>)
        ELSE IF begun.result # "Ok"
        THEN begun
        ELSE IF report.result # "Ok"
        THEN Ret(HistRejected([dropped.w EXCEPT !.metadata[c].partition_map = taken],
                              c, w.metadata[c].partition_map["user"]),
                 "Err", report.err, None, None,
                 begun.events \o report.events \o dropped.events)
        ELSE Ret(committed.w, committed.result, committed.err,
                 IF committed.result = "Ok" THEN report.report ELSE None, None,
                 begun.events \o report.events \o committed.events)

\* Conn::transact.  sqlite_ok: whether SQLite accepts the COMMIT.
ConnTransact(w, c, transaction, sqlite_ok) ==
    LET assertion_vector == EdnParse(transaction)
        entities == TxParse(assertion_vector.value)
        begun == BeginTransaction(w, c)
        report == InProgressTransactEntities(begun.w, c, entities.entities)
        dropped == Drop(report.w, c)
        committed == Commit(report.w, c, sqlite_ok)
    IN  IF ~assertion_vector.ok
        THEN Ret(w, "Err", assertion_vector.err, None, None, <<>>)
        ELSE IF ~entities.ok
        THEN Ret(w, "Err", entities.err, None, None, <<>>)
        ELSE IF begun.result # "Ok"
        THEN begun
        ELSE IF report.result # "Ok"
        THEN Ret(HistRejected(dropped.w, c, w.metadata[c].partition_map["user"]),
                 "Err", report.err, None, None,
                 begun.events \o report.events \o dropped.events)
        ELSE Ret(committed.w, committed.result, committed.err,
                 IF committed.result = "Ok" THEN report.report ELSE None, None,
                 begun.events \o report.events \o committed.events)

\* ------------------------------------------------------------------------
\* The attribute cache and the lookups that read through it.
\* ------------------------------------------------------------------------
\* The attributes an AttributeCacher holds; `registered` is a set of
\* <<attribute entid, mode>> pairs.
CachedAttributes(cc) == {p[1] : p \in cc.registered}

\* AttributeCacher::register_attribute: fetches every value of the
\* attribute from the connection (the eager mode); a registered attribute
\* stays as it is.
RegisterAttribute(cc, db, entid) ==
    IF entid \in CachedAttributes(cc) THEN cc
    ELSE [registered |-> cc.registered \cup {<<entid, "Eager">>},
          values |-> cc.values \cup {d \in db.datoms : d[2] = entid}]

\* AttributeCacher::deregister_attribute: the cache without the attribute,
\* and whether it was there.
DeregisterAttribute(cc, entid) ==
    [found |-> entid \in CachedAttributes(cc),
     cc |-> [registered |-> {p \in cc.registered : p[1] # entid},
             values |-> {d \in cc.values : d[2] # entid}]]

\* The values of an attribute (an entid) for an entity in a set of datoms.
ValuesOf(datoms, entity, a) ==
    {d[3] : d \in {x \in datoms : x[1] = entity /\ x[2] = a}}

\* query::lookup_values_for_attribute: a hit in the cache is returned from
\* the cache; otherwise the values are fetched from the connection.
LookupValuesForAttribute(db, schema, cc, entity, attribute) ==
    LET a == GetEntid(schema, attribute)
        cached == ValuesOf(cc.values, entity, a.v)
    IN  IF ~a.some
        THEN [ok |-> FALSE, err |-> "UnknownAttribute", values |-> {}]
        ELSE [ok |-> TRUE, err |-> "",
              values |-> IF cached # {} THEN cached
                         ELSE ValuesOf(db.datoms, entity, a.v)]

\* query::lookup_value_for_attribute: the value, if the entity has one.
LookupValueForAttribute(db, schema, cc, entity, attribute) ==
    LET r == LookupValuesForAttribute(db, schema, cc, entity, attribute)
    IN  [ok |-> r.ok, err |-> r.err,
         value |-> IF r.values = {} THEN None
                   ELSE Some(CHOOSE v \in r.values : TRUE)]

\* Conn::lookup_values_for_attribute
ConnLookupValuesForAttribute(w, c, entity, attribute) ==
    LET r == LookupValuesForAttribute(w.store, w.metadata[c].schema.val, w.cache[c],
                                      entity, attribute)
    IN  Ret(w, IF r.ok THEN "Ok" ELSE "Err", r.err, None, Some(r.values),
            <<"cache.read", "metadata.lock", "metadata.unlock", "query", "cache.unlock">>)

\* Conn::lookup_value_for_attribute
ConnLookupValueForAttribute(w, c, entity, attribute) ==
    LET r == LookupValueForAttribute(w.store, w.metadata[c].schema.val, w.cache[c],
                                     entity, attribute)
    IN  Ret(w, IF r.ok THEN "Ok" ELSE "Err", r.err, None, Some(r.value),
            <<"cache.read", "metadata.lock", "metadata.unlock", "query", "cache.unlock">>)

\* InProgress::lookup_values_for_attribute
InProgressLookupValuesForAttribute(w, c, entity, attribute) ==
    LET r == LookupValuesForAttribute(w.ip[c].transaction.db, w.ip[c].schema,
                                      w.cache[c], entity, attribute)
    IN  Ret(w, IF r.ok THEN "Ok" ELSE "Err", r.err, None, Some(r.values), <<"query">>)

\* Conn::cache with a slip: a Register of an attribute that the cache holds
\* already is refused.
ConnCacheRegisterOnce(w, c, attribute, cache_action) ==
    LET schema == w.metadata[c].schema
        attribute_entid == GetEntid(schema.val, attribute)
        locks == <<"metadata.lock", "metadata.unlock", "cache.write">>
    IN  IF ~attribute_entid.some
        THEN Ret(w, "Err", "UnknownAttribute", None, Some(attribute), locks \o <<"cache.unlock">>)
        ELSE IF cache_action = "Register" /\ attribute_entid.v \in CachedAttributes(w.cache[c])
        THEN Ret(w, "Err", "AlreadyCached", None, None, locks \o <<"cache.unlock">>)
        ELSE IF cache_action = "Register"
        THEN Ret([w EXCEPT !.cache[c] = RegisterAttribute(@, w.store, attribute_entid.v)],
                 "Ok", "", None, None, locks \o <<"query", "cache.unlock">>)
        ELSE Ret([w EXCEPT !.cache[c] = DeregisterAttribute(@, attribute_entid.v).cc],
                 "Ok", "", None, None, locks \o <<"cache.unlock">>)

\* Conn::cache with a slip: the attribute is resolved inside the Register
\* arm only, so a Deregister of an attribute the schema does not know
\* finds nothing to remove and returns Ok.
ConnCacheResolvesInRegister(w, c, attribute, cache_action) ==
    LET schema == w.metadata[c].schema
        attribute_entid == GetEntid(schema.val, attribute)
        locks == <<"metadata.lock", "metadata.unlock", "cache.write">>
    IN  IF cache_action = "Register" /\ ~attribute_entid.some
        THEN Ret(w, "Err", "UnknownAttribute", None, Some(attribute), locks \o <<"cache.unlock">>)
        ELSE IF cache_action = "Register"
        THEN Ret([w EXCEPT !.cache[c] = RegisterAttribute(@, w.store, attribute_entid.v)],
                 "Ok", "", None, None, locks \o <<"query", "cache.unlock">>)
        ELSE IF ~attribute_entid.some
        THEN Ret(w, "Ok", "", None, None, locks \o <<"cache.unlock">>)
        ELSE Ret([w EXCEPT !.cache[c] = DeregisterAttribute(@, attribute_entid.v).cc],
                 "Ok", "", None, None, locks \o <<"cache.unlock">>)

\* Conn::cache
ConnCache(w, c, attribute, cache_action) ==
    LET schema == w.metadata[c].schema
        attribute_entid == GetEntid(schema.val, attribute)
        locks == <<"metadata.lock", "metadata.unlock", "cache.write">>
    IN  IF ~attribute_entid.some
        THEN Ret(w, "Err", "UnknownAttribute", None, Some(attribute), locks \o <<"cache.unlock">>)
        ELSE IF cache_action = "Register"
        THEN Ret([w EXCEPT !.cache[c] = RegisterAttribute(@, w.store, attribute_entid.v)],
                 "Ok", "", None, None, locks \o <<"query", "cache.unlock">>)
        ELSE Ret([w EXCEPT !.cache[c] = DeregisterAttribute(@, attribute_entid.v).cc],
                 "Ok", "", None, None, locks \o <<"cache.unlock">>)

\* Conn::current_schema
CurrentSchema(w, c) ==
    Ret(w, "Ok", "", None, Some(w.metadata[c].schema), <<"metadata.lock", "metadata.unlock">>)

\* Conn::connect: bootstrap reads the persisted partition map and schema.
Connect(w, c) ==
    Ret([w EXCEPT !.connected = @ \cup {c},
                  !.metadata[c] = ConnNew(w.store.partition_map, w.store.schema),
                  !.cache[c] = AttributeCacherNew,
                  !.hist[c] = [NoHist EXCEPT
                                  !.initial = w.store.partition_map,
                                  !.published.partition_map = w.store.partition_map,
                                  !.published.schema = w.store.schema]],
        "Ok", "", None, None, <<"sqlite.read">>)

\* ------------------------------------------------------------------------
\* Store: one connection and one Conn, each method handing the Conn the
\* Store's own connection.
\* ------------------------------------------------------------------------
\* Store::begin_read
StoreBeginRead(w, c) == BeginRead(w, c)

\* Store::begin_transaction
StoreBeginTransaction(w, c) == BeginTransaction(w, c)

\* Store::q_once
StoreQOnce(w, c, query) == ConnQOnce(w, c, query)

\* ------------------------------------------------------------------------
\* Actions: one call of one method on Conn c, or on the InProgress it lent.
\* ------------------------------------------------------------------------
\* What a call that returns r leaves in the program state.
Effect(c, op, input, r) ==
    /\ store' = r.w.store
    /\ writer' = r.w.writer
    /\ connected' = r.w.connected
    /\ metadata' = r.w.metadata
    /\ cache' = r.w.cache
    /\ cache_lock' = r.w.cache_lock
    /\ ip' = r.w.ip
    /\ hist' = [r.w.hist EXCEPT ![c].rejected =
                                   IF op = "conn.transact" THEN @ ELSE None]
    /\ res' = [conn |-> c, op |-> op, input |-> input, result |-> r.result, err |-> r.err,
               report |-> r.report, out |-> r.out, events |-> r.events,
               transacts |-> hist[c].cur.alloc["tx"],
               prior |-> IF op = "conn.transact" THEN hist[c].rejected ELSE None,
               read |-> ip[c].some /\ ip[c].read]
    /\ repl' = repl

\* A call made with no other thread about: from its first lock to its last
\* it is one step.
Apply(c, op, input, r) ==
    /\ Effect(c, op, input, r)
    /\ UNCHANGED <<thread, mutex, rwlock>>

\* Conn's methods borrow the Conn, which an InProgress keeps borrowed.
Idle(c) == c \in connected /\ ~ip[c].some
Writing(c) == c \in connected /\ ip[c].some /\ ~ip[c].read

\* The model's bounds on what a transact may still allocate.
Fits(partition_map, entities) ==
    /\ partition_map["tx"] < TX0 + 1 + MaxTx
    /\ partition_map["user"] + Cardinality(TempIdsOf(entities)) <= USER0 + MaxAlloc

\* The lookups made and the attributes cached: the first user entity, :k1.
Entids == {USER0}
Attributes == {"k1"}

CallBeginTransaction(c) ==
    /\ Idle(c)
    /\ metadata[c].generation < MaxGen
    /\ Apply(c, "begin_transaction", None, BeginTransaction(World, c))

CallBeginRead(c) ==
    /\ Idle(c)
    /\ Apply(c, "begin_read", None, BeginRead(World, c))

CallTransact(c) ==
    /\ Writing(c)
    /\ \E transaction \in Texts :
        /\ Fits(ip[c].partition_map, transaction.entities)
        /\ Apply(c, "transact", Some(transaction), InProgressTransact(World, c, transaction))

CallTransactTerms(c) ==
    /\ Writing(c)
    /\ \E terms \in EntityLists :
        /\ Fits(ip[c].partition_map, terms)
        /\ Apply(c, "transact_terms", Some(terms), InProgressTransactTerms(World, c, terms))

\* The terms transacted where two Conns share the store: an entity named
\* :k1.
SharedLists ==
    { <<Term(TempId("one"), DbIdent, "k1")>> }

CallTransactTermsShared(c) ==
    /\ Writing(c)
    /\ \E terms \in SharedLists :
        /\ Fits(ip[c].partition_map, terms)
        /\ Apply(c, "transact_terms", Some(terms), InProgressTransactTerms(World, c, terms))

\* commit with a slip: InProgressRead hands out the InProgress it wraps
\* (a public field, or a DerefMut), so commit can be called on a read.
CallCommitAnyInProgress(c) ==
    /\ c \in connected /\ ip[c].some
    /\ \E sqlite_ok \in BOOLEAN :
        Apply(c, "commit", None, Commit(World, c, sqlite_ok))

\* commit, rollback and the transacts are methods of InProgress; an
\* InProgressRead keeps its InProgress private and forwards none of them.
CallCommit(c) ==
    /\ Writing(c)
    /\ \E sqlite_ok \in BOOLEAN :
        Apply(c, "commit", None, Commit(World, c, sqlite_ok))

\* commit on an InProgress whose snapshot generation is any value.  No
\* InProgress the program makes holds one that differs from the metadata's,
\* so the field is drawn here as an input of the method.
CallCommitAt(c) ==
    /\ Writing(c)
    /\ \E generation \in 0 .. MaxGen, sqlite_ok \in BOOLEAN :
        Apply(c, "commit", Some(generation),
              Commit([World EXCEPT !.ip[c].generation = generation], c, sqlite_ok))

CallRollback(c) ==
    /\ Writing(c)
    /\ Apply(c, "rollback", None, Rollback(World, c))

CallDrop(c) ==
    /\ c \in connected /\ ip[c].some
    /\ Apply(c, "drop", None, Drop(World, c))

CallInProgressQOnce(c) ==
    /\ c \in connected /\ ip[c].some
    /\ \E query \in Queries :
        Apply(c, "in_progress.q_once", Some(query), InProgressQOnce(World, c, query))

CallInProgressLookup(c) ==
    /\ c \in connected /\ ip[c].some
    /\ \E entity \in Entids, attribute \in Attributes :
        Apply(c, "in_progress.lookup_values_for_attribute", Some(<<entity, attribute>>),
              InProgressLookupValuesForAttribute(World, c, entity, attribute))

CallConnQOnce(c) ==
    /\ Idle(c)
    /\ \E query \in Queries :
        Apply(c, "q_once", Some(query), ConnQOnce(World, c, query))

CallConnLookup(c) ==
    /\ Idle(c)
    /\ \E entity \in Entids, attribute \in Attributes :
        Apply(c, "lookup_values_for_attribute", Some(<<entity, attribute>>),
              ConnLookupValuesForAttribute(World, c, entity, attribute))

CallConnLookupValue(c) ==
    /\ Idle(c)
    /\ \E entity \in Entids, attribute \in Attributes :
        Apply(c, "lookup_value_for_attribute", Some(<<entity, attribute>>),
              ConnLookupValueForAttribute(World, c, entity, attribute))

CallCurrentSchema(c) ==
    /\ Idle(c)
    /\ Apply(c, "current_schema", None, CurrentSchema(World, c))

\* A current_schema whose caller holds on to the handle.
CallKeepCurrentSchema(c) ==
    /\ Idle(c)
    /\ LET r == CurrentSchema(World, c)
       IN  Apply(c, "current_schema", None, [r EXCEPT !.w = HistHandle(r.w, c, r.out.v)])

CallConnTransact(c) ==
    /\ Idle(c)
    /\ metadata[c].generation < MaxGen
    /\ \E transaction \in Texts, sqlite_ok \in BOOLEAN :
        /\ Fits(metadata[c].partition_map, transaction.entities)
        /\ Apply(c, "conn.transact", Some(transaction), ConnTransact(World, c, transaction, sqlite_ok))

CallConnCache(c) ==
    /\ Idle(c)
    /\ \E attribute \in Attributes, cache_action \in {"Register", "Deregister"} :
        Apply(c, "cache", Some(<<attribute, cache_action>>), ConnCache(World, c, attribute, cache_action))

\* The attributes handed to Conn::cache when the cache is what is looked
\* at: one the schema always knows, and two it knows once they are defined.
CacheAttributes == {DbIdent, "k1", "k2"}

CallConnCacheAny(c) ==
    /\ Idle(c)
    /\ \E attribute \in CacheAttributes, cache_action \in {"Register", "Deregister"} :
        Apply(c, "cache", Some(<<attribute, cache_action>>), ConnCache(World, c, attribute, cache_action))

CallConnect(c) ==
    /\ c \notin connected
    /\ Apply(c, "connect", None, Connect(World, c))

\* Store::begin_read with a slip: the receiver is a shared reference
\* (`&'m self`), so the call compiles while the Store has an InProgress out.
CallStoreBeginReadShared(c) ==
    /\ c \in connected
    /\ Apply(c, "store.begin_read", None, StoreBeginRead(World, c))

\* Store c is the Store of Conn c.  Its begin methods take `&'m mut self`
\* for the lifetime 'm of what they return: the Store is borrowed until the
\* InProgress or InProgressRead is gone.
CallStoreBeginRead(c) ==
    /\ Idle(c)
    /\ Apply(c, "store.begin_read", None, StoreBeginRead(World, c))

CallStoreBeginTransaction(c) ==
    /\ Idle(c)
    /\ metadata[c].generation < MaxGen
    /\ Apply(c, "store.begin_transaction", None, StoreBeginTransaction(World, c))

CallStoreQOnce(c) ==
    /\ Idle(c)
    /\ \E query \in Queries :
        Apply(c, "store.q_once", Some(query), StoreQOnce(World, c, query))

\* ------------------------------------------------------------------------
\* Threads.  A method performs its lock and SQLite operations in the order
\* of its source (the events of what it returns).  A thread inside a call
\* performs them one at a time, waiting where a lock is taken, and what the
\* call does to the program state lands with its last operation.
\* ------------------------------------------------------------------------
\* Methods of Conn that take `&self`, those that take `&mut self`, and the
\* methods of the InProgress (and InProgressRead) a begin returns.
SharedMethods == {"current_schema", "q_once", "lookup_value_for_attribute"}
ExclusiveMethods == {"begin_transaction", "begin_read", "cache"}

\* The method `op` applied to its input.
Run(w, c, op, input) ==
    CASE op = "begin_transaction" -> BeginTransaction(w, c)
      [] op = "begin_read" -> BeginRead(w, c)
      [] op = "cache" -> ConnCache(w, c, input.v[1], input.v[2])
      [] op = "current_schema" -> CurrentSchema(w, c)
      [] op = "q_once" -> ConnQOnce(w, c, input.v)
      [] op = "lookup_value_for_attribute" ->
             ConnLookupValueForAttribute(w, c, input.v[1], input.v[2])
      [] op = "transact_terms" -> InProgressTransactTerms(w, c, input.v)
      [] op = "commit" -> Commit(w, c, input.v)
      [] op = "commit_at" ->
             Commit([w EXCEPT !.ip[c].generation = input.v[1]], c, input.v[2])
      [] op = "rollback" -> Rollback(w, c)
      [] op = "drop" -> Drop(w, c)

\* Thread u is inside a call on Conn c.
Inside(u, c) == thread[u].op # "none" /\ thread[u].conn = c

\* Thread u has Conn c mutably borrowed: it is inside a `&mut self` method,
\* or has the InProgress that one returned (whose lifetime is the borrow's).
BorrowsMut(u, c) ==
    \/ thread[u].owns = c
    \/ Inside(u, c) /\ thread[u].op \in ExclusiveMethods

\* Thread t enters the method.
Invoke(t, c, op, input) ==
    /\ thread' = [thread EXCEPT ![t] = [op |-> op, conn |-> c, input |-> input,
                                        pc |-> 1, owns |-> @.owns]]
    /\ UNCHANGED <<store, writer, connected, metadata, cache, cache_lock, ip,
                   hist, res, mutex, rwlock, repl>>

\* A `&self` method of the Conn: callable beside other `&self` calls, not
\* while the Conn is mutably borrowed.
ThreadShared(t, c) ==
    /\ thread[t].op = "none"
    /\ c \in connected
    /\ \A u \in Threads : ~BorrowsMut(u, c)
    /\ \/ Invoke(t, c, "current_schema", None)
       \/ \E query \in Queries : Invoke(t, c, "q_once", Some(query))
       \/ \E entity \in Entids, attribute \in Attributes :
              Invoke(t, c, "lookup_value_for_attribute", Some(<<entity, attribute>>))

\* A `&mut self` method of the Conn: callable when nothing borrows the Conn.
ThreadExclusive(t, c) ==
    /\ thread[t].op = "none"
    /\ c \in connected
    /\ \A u \in Threads : ~BorrowsMut(u, c) /\ ~Inside(u, c)
    /\ \/ metadata[c].generation < MaxGen /\ Invoke(t, c, "begin_transaction", None)
       \/ Invoke(t, c, "begin_read", None)
       \/ \E attribute \in Attributes, cache_action \in {"Register", "Deregister"} :
              Invoke(t, c, "cache", Some(<<attribute, cache_action>>))

\* A method of the InProgress, called by the thread that has it (an
\* InProgress holds a lock guard and cannot be sent to another thread).
ThreadInProgress(t, c) ==
    /\ thread[t].op = "none"
    /\ thread[t].owns = c
    /\ ip[c].some
    /\ \/ Writing(c) /\ \E terms \in SharedLists :
              Fits(ip[c].partition_map, terms) /\ Invoke(t, c, "transact_terms", Some(terms))
       \/ Writing(c) /\ \E sqlite_ok \in BOOLEAN : Invoke(t, c, "commit", Some(sqlite_ok))
       \/ Writing(c) /\ Invoke(t, c, "rollback", None)
       \/ Invoke(t, c, "drop", None)

\* Of the `&self` methods, the lookup, which takes the cache lock; of the
\* `&mut self` methods, the two that begin.
ThreadLookup(t, c) ==
    /\ thread[t].op = "none"
    /\ c \in connected
    /\ \A u \in Threads : ~BorrowsMut(u, c)
    /\ \E entity \in Entids, attribute \in Attributes :
          Invoke(t, c, "lookup_value_for_attribute", Some(<<entity, attribute>>))

ThreadBegin(t, c) ==
    /\ thread[t].op = "none"
    /\ c \in connected
    /\ \A u \in Threads : ~BorrowsMut(u, c) /\ ~Inside(u, c)
    /\ \/ metadata[c].generation < MaxGen /\ Invoke(t, c, "begin_transaction", None)
       \/ Invoke(t, c, "begin_read", None)

\* The first transact of an InProgress, and the calls that end one.
ThreadWrite(t, c) ==
    /\ thread[t].op = "none"
    /\ thread[t].owns = c
    /\ Writing(c)
    /\ ip[c].partition_map = metadata[c].partition_map
    /\ \E terms \in SharedLists :
          Fits(ip[c].partition_map, terms) /\ Invoke(t, c, "transact_terms", Some(terms))

ThreadEnd(t, c) ==
    /\ thread[t].op = "none"
    /\ thread[t].owns = c
    /\ ip[c].some
    /\ \/ Writing(c) /\ \E sqlite_ok \in BOOLEAN : Invoke(t, c, "commit", Some(sqlite_ok))
       \/ Writing(c) /\ Invoke(t, c, "rollback", None)
       \/ Invoke(t, c, "drop", None)

\* commit on an InProgress whose snapshot generation is not the metadata's
\* (as in CallCommitAt, the field is drawn as an input of the method).
ThreadCommitAt(t, c) ==
    /\ thread[t].op = "none"
    /\ thread[t].owns = c
    /\ Writing(c)
    /\ \E generation \in (0 .. MaxGen) \ {metadata[c].generation}, sqlite_ok \in BOOLEAN :
          Invoke(t, c, "commit_at", Some(<<generation, sqlite_ok>>))

\* The operation thread t is to perform next.
NextEvent(t) ==
    Run(World, thread[t].conn, thread[t].op, thread[t].input).events[thread[t].pc]

\* Mutex::lock, RwLock::read and RwLock::write return once the lock can be
\* had; a std Mutex is not reentrant.
Available(c, ev) ==
    CASE ev = "metadata.lock" -> mutex[c] = 0
      [] ev = "cache.read" -> rwlock[c].writer = 0
      [] ev = "cache.write" -> rwlock[c].writer = 0 /\ rwlock[c].readers = {}
      [] OTHER -> TRUE

\* The locks after thread t has performed ev.
MutexAfter(t, c, ev) ==
    CASE ev = "metadata.lock" -> [mutex EXCEPT ![c] = t]
      [] ev = "metadata.unlock" -> [mutex EXCEPT ![c] = IF @ = t THEN 0 ELSE @]
      [] OTHER -> mutex

RwLockAfter(t, c, ev) ==
    CASE ev = "cache.read" -> [rwlock EXCEPT ![c].readers = @ \cup {t}]
      [] ev = "cache.write" -> [rwlock EXCEPT ![c].writer = t]
      [] ev = "cache.unlock" ->
             [rwlock EXCEPT ![c].writer = IF @ = t THEN 0 ELSE @,
                            ![c].readers = @ \ {t}]
      [] OTHER -> rwlock

\* Thread t performs the next operation of the call it is inside; with the
\* last one the call returns.
ThreadStep(t) ==
    /\ thread[t].op # "none"
    /\ LET c == thread[t].conn
           r == Run(World, c, thread[t].op, thread[t].input)
           ev == r.events[thread[t].pc]
       IN  /\ Available(c, ev)
           /\ mutex' = MutexAfter(t, c, ev)
           /\ rwlock' = RwLockAfter(t, c, ev)
           /\ IF thread[t].pc = Len(r.events)
              THEN /\ Effect(c, thread[t].op, thread[t].input, r)
                   /\ thread' = [thread EXCEPT ![t] =
                                     Out(IF r.w.ip[c].some THEN c ELSE 0)]
              ELSE /\ thread' = [thread EXCEPT ![t].pc = @ + 1]
                   /\ UNCHANGED <<store, writer, connected, metadata, cache,
                                  cache_lock, ip, hist, res, repl>>

\* The commands of the Repl.  They work on the Repl's own Store.
ReplDoes(op, path, opens, r) ==
    /\ repl' = [r.self EXCEPT !.last = [op |-> op, path |-> path, opens |-> opens,
                                        result |-> r.result]]
    /\ UNCHANGED <<store, writer, connected, metadata, cache, cache_lock, ip,
                   hist, res, thread, mutex, rwlock>>

CallReplOpen ==
    \E path \in Paths, opens \in BOOLEAN :
        /\ repl.opened <= MaxOpen
        /\ ReplDoes("open", path, opens, ReplOpen(repl, path, opens))

CallReplClose ==
    \E opens \in BOOLEAN :
        /\ repl.opened <= MaxOpen
        /\ ReplDoes("close", "", opens, ReplClose(repl, opens))

CallReplTransact ==
    \E accepted \in BOOLEAN :
        /\ repl.store.datoms < MaxWrites
        /\ ReplDoes("transact", repl.path, accepted, ReplTransact(repl, accepted))

Next ==
    \E c \in AllConns :
        \/ CallBeginTransaction(c)
        \/ CallBeginRead(c)
        \/ CallTransact(c)
        \/ CallTransactTerms(c)
        \/ CallCommit(c)
        \/ CallRollback(c)
        \/ CallDrop(c)
        \/ CallInProgressQOnce(c)
        \/ CallInProgressLookup(c)
        \/ CallConnQOnce(c)
        \/ CallConnLookup(c)
        \/ CallConnLookupValue(c)
        \/ CallCurrentSchema(c)
        \/ CallConnTransact(c)
        \/ CallConnCache(c)

\* One Conn on the store.
Spec == Init /\ [][Next]_vars

\* One Conn used through Conn's own methods only, caching any attribute.
NextCache ==
    \E c \in AllConns :
        \/ CallConnTransact(c)
        \/ CallConnCacheAny(c)
        \/ CallConnLookup(c)
        \/ CallConnLookupValue(c)

SpecCache == Init /\ [][NextCache]_vars

\* One Conn whose schema handles are kept across its Conn::transact calls.
NextSchema ==
    \E c \in AllConns :
        \/ CallConnTransact(c)
        \/ CallKeepCurrentSchema(c)
        \/ CallConnQOnce(c)

SpecSchema == Init /\ [][NextSchema]_vars

\* A second Conn, with its own connection, on the same database file: each
\* of the two begins, transacts, queries inside, and commits or drops.
NextTwo ==
    \E c \in AllConns :
        \/ CallConnect(c)
        \/ CallBeginTransaction(c)
        \/ CallBeginRead(c)
        \/ CallTransactTermsShared(c)
        \/ CallCommit(c)
        \/ CallDrop(c)
        \/ CallInProgressQOnce(c)

SpecTwo == Init /\ [][NextTwo]_vars

\* One Store: transactions begun through the Store, worked on and ended.
NextStore ==
    \E c \in AllConns :
        \/ CallStoreBeginRead(c)
        \/ CallStoreBeginTransaction(c)
        \/ CallStoreQOnce(c)
        \/ CallInProgressQOnce(c)
        \/ CallTransactTerms(c)
        \/ CallCommit(c)
        \/ CallRollback(c)
        \/ CallDrop(c)

SpecStore == Init /\ [][NextStore]_vars

\* One Conn whose commits are made with any snapshot generation.
NextRace ==
    \E c \in AllConns :
        \/ CallBeginTransaction(c)
        \/ CallTransactTerms(c)
        \/ CallCommitAt(c)
        \/ CallConnQOnce(c)

SpecRace == Init /\ [][NextRace]_vars

\* The Repl taking .open, .close and .transact commands.
NextRepl ==
    \/ CallReplOpen
    \/ CallReplClose
    \/ CallReplTransact

SpecRepl == Init /\ [][NextRepl]_vars

\* Two threads on one Conn.
NextThreads ==
    \E t \in Threads :
        \/ \E c \in AllConns :
              \/ ThreadShared(t, c)
              \/ ThreadExclusive(t, c)
              \/ ThreadInProgress(t, c)
        \/ ThreadStep(t)

SpecThreads == Init /\ [][NextThreads]_vars

\* Two threads on one Conn whose InProgress may end in every way, a race
\* included.  A thread inside a call whose next operation can be performed
\* performs it: the scheduler leaves no runnable thread behind for ever.
NextEnds ==
    \E t \in Threads :
        \/ \E c \in AllConns :
              \/ ThreadLookup(t, c)
              \/ ThreadBegin(t, c)
              \/ ThreadWrite(t, c)
              \/ ThreadEnd(t, c)
              \/ ThreadCommitAt(t, c)
        \/ ThreadStep(t)

SpecEnds ==
    /\ Init /\ [][NextEnds]_vars
    /\ \A t \in Threads : WF_vars(ThreadStep(t))

\* ------------------------------------------------------------------------
\* Properties.
\* ------------------------------------------------------------------------
\* The step is a call `op` on Conn c that returned `result`.
Returned(r, c, ops, result) ==
    r.conn = c /\ r.op \in ops /\ r.result = result

Commits == {"commit", "conn.transact"}
Transacts == {"transact", "transact_terms"}

\* C1: every commit that returns success (InProgress::commit, and the one
\* inside a successful Conn::transact) leaves the Conn's generation exactly
\* one more than it was just before, also when the transaction wrote nothing.
C1_CommitAddsOneGeneration ==
    [][\A c \in AllConns :
          Returned(res', c, Commits, "Ok")
              => metadata'[c].generation = metadata[c].generation + 1]_vars

\* A commit has succeeded on an InProgress that never transacted.
C1_Witness ==
    /\ Returned(res, 1, {"commit"}, "Ok")
    /\ res.transacts = 0
    /\ metadata[1].generation = 2

\* C2: after a commit that fails and after every rollback, the metadata
\* (generation, partition map, schema handle) is what it was when the
\* transaction began.
C2_FailedCommitAndRollbackRestoreMetadata ==
    [][\A c \in AllConns :
          (Returned(res', c, {"commit"}, "Err") \/ Returned(res', c, {"rollback"}, "Ok"))
              => hist[c].cur.begin_meta = Some(metadata'[c])]_vars

\* SQLite refused the COMMIT of an InProgress that had transacted, on a Conn
\* that has committed before.
C2_Witness ==
    /\ Returned(res, 1, {"commit"}, "Err")
    /\ res.err = "Backing"
    /\ res.transacts > 0
    /\ metadata[1].generation = 1

\* C3: the metadata starts at generation 0 and changes only in a step that
\* is a successful commit; no begin, transact, rollback, drop, cache call,
\* query or lookup changes any of its three fields.
C3_OnlyCommitChangesMetadata ==
    /\ \A c \in connected : metadata[c].generation = 0
    /\ [][\A c \in AllConns :
             metadata'[c] # metadata[c] => Returned(res', c, Commits, "Ok")]_vars

\* A transact has advanced the draft partition map past the metadata's, a
\* query ran inside the InProgress, and the metadata is still as connected.
C3_Witness ==
    /\ Returned(res, 1, {"in_progress.q_once"}, "Ok")
    /\ ip[1].some
    /\ ip[1].partition_map # metadata[1].partition_map
    /\ metadata[1] = ConnNew(Bootstrap.partition_map, Bootstrap.schema)

\* C4: when a transact on an InProgress returns an error, the InProgress's
\* draft partition map and draft schema are what they were before the call,
\* and the InProgress is still there to transact, commit or roll back: it
\* holds its SQLite transaction and the cache write lock.
C4_FailedTransactKeepsDraft ==
    [][\A c \in AllConns :
          Returned(res', c, Transacts, "Err")
              => /\ ip'[c].partition_map = ip[c].partition_map
                 /\ ip'[c].schema = ip[c].schema
                 /\ Writing(c)'
                 /\ writer' = c
                 /\ cache_lock'[c] = "write"]_vars

\* The transactor refused a conflicting upsert, after allocating, in an
\* InProgress whose draft was already ahead of the metadata.
C4_Witness ==
    /\ Returned(res, 1, Transacts, "Err")
    /\ res.err = "NotYetImplemented"
    /\ res.transacts > 0
    /\ ip[1].partition_map # metadata[1].partition_map

\* C5: the index of each partition in the metadata is its index when the
\* Conn was made plus the entids that the successful transacts of committed
\* transactions allocated in it; nothing else is counted.
C5_IndexCountsCommittedAllocations ==
    \A c \in connected : \A p \in Parts :
        metadata[c].partition_map[p] = hist[c].initial[p] + hist[c].committed[p]

\* After a commit that allocated user entids, a transaction that had
\* allocated too has been rolled back.
C5_Witness ==
    /\ hist[1].committed["user"] > 0
    /\ hist[1].rolled_back.some
    /\ hist[1].rolled_back.v.report.allocated # {}
    /\ ~ip[1].some

\* C6: while a transaction that transacted and was rolled back is the last
\* one ended, the metadata's partition map is what it was when that
\* transaction began, and the next transaction, transacting the same
\* entities first, gets the same report: the same tx_id, the same entids.
C6_RolledBackIdsAreReused ==
    \A c \in connected :
        hist[c].rolled_back.some =>
            /\ metadata[c].partition_map = hist[c].rolled_back.v.begin_meta.partition_map
            /\ (hist[c].cur.first.some
                  /\ hist[c].cur.first.v.entities = hist[c].rolled_back.v.entities)
               => hist[c].cur.first.v.report = hist[c].rolled_back.v.report

\* The transaction after a rolled-back one has transacted the same entities
\* and allocated entids for them.
C6_Witness ==
    /\ hist[1].rolled_back.some
    /\ hist[1].cur.first.some
    /\ hist[1].cur.first.v.entities = hist[1].rolled_back.v.entities
    /\ hist[1].cur.first.v.report.allocated # {}

\* What the committed transactions of every Conn wrote, on top of bootstrap.
CommittedDatoms ==
    AddDatoms(Bootstrap.datoms, UNION {hist[c].committed_written : c \in AllConns})

\* C7: the store a Conn-level query reads holds the writes of committed
\* transactions and no others, so a Conn::q_once returns what the committed
\* writes alone give: after a rollback, what it gave before the begin.
C7_UncommittedWritesInvisible ==
    /\ store.datoms = CommittedDatoms
    /\ \A c \in connected :
          Returned(res, c, {"q_once"}, "Ok")
              => res.out.v = QOnce([datoms |-> CommittedDatoms],
                                   Bootstrap.schema \cup IdentsOf(CommittedDatoms),
                                   res.input.v)

\* A transaction gave an entity the ident :k1 and was rolled back; the
\* Conn-level query for that ident then finds nothing.
C7_Witness ==
    /\ Returned(res, 1, {"q_once"}, "Ok")
    /\ res.input.v = [a |-> DbIdent, v |-> "k1"]
    /\ res.out.v.results = {}
    /\ hist[1].rolled_back.some
    /\ \E t \in TempIds :
          hist[1].rolled_back.v.entities = <<Term(TempId(t), DbIdent, "k1")>>

\* The InProgress of Conn c ends in this step.
Ends(c) == ip[c].some /\ ~ip'[c].some

\* C8: dropping an InProgress or InProgressRead leaves the program where
\* rollback would: the store and the metadata unchanged, SQLite's write lock
\* and the cache lock released.  And whenever an InProgress ends, its SQLite
\* transaction is over and the cache lock free, with the store taking the
\* transaction's writes if the step is a successful commit and staying as it
\* was otherwise.
C8_DropIsRollback ==
    [][\A c \in AllConns :
          /\ Returned(res', c, {"drop"}, "Ok")
                => LET r == Rollback(World, c).w
                   IN  /\ store' = r.store /\ store' = store
                       /\ metadata' = r.metadata /\ metadata' = metadata
                       /\ writer' = r.writer
                       /\ cache' = r.cache
                       /\ cache_lock' = r.cache_lock
                       /\ ip' = r.ip
          /\ Ends(c)
                => /\ writer' # c
                   /\ cache_lock'[c] = "free"
                   /\ store' = IF Returned(res', c, Commits, "Ok")
                               THEN ip[c].transaction.db ELSE store]_vars

\* An InProgress that had transacted was dropped.
C8_Witness ==
    /\ Returned(res, 1, {"drop"}, "Ok")
    /\ res.transacts > 0
    /\ ~ip[1].some

\* C9: a q_once inside an InProgress that has transacted returns what the
\* store at begin together with the InProgress's own writes gives, the
\* query's attribute resolved against the schema at begin extended by the
\* idents those writes define.
C9_ReadYourWrites ==
    \A c \in connected :
        (Returned(res, c, {"in_progress.q_once"}, "Ok") /\ hist[c].cur.first.some)
            => res.out.v =
                 QOnce([datoms |-> AddDatoms(hist[c].cur.begin_store.v.datoms,
                                          hist[c].cur.written)],
                       hist[c].cur.begin_meta.v.schema.val
                           \cup IdentsOf(hist[c].cur.written),
                       res.input.v)

\* Over an empty store, an InProgress defined :k1, asserted a value for it,
\* and its query on :k1 found the entity.
C9_Witness ==
    /\ Returned(res, 1, {"in_progress.q_once"}, "Ok")
    /\ res.input.v = [a |-> "k1", v |-> "100"]
    /\ res.out.v.ok
    /\ res.out.v.results # {}
    /\ store.datoms = {}

\* C10: a Conn::transact on text that is not EDN, or not a transaction,
\* returns the parse error having begun no SQLite transaction, taken no lock
\* and changed nothing.
C10_ParseErrorBeforeBegin ==
    [][\A c \in AllConns :
          (res'.conn = c /\ res'.op = "conn.transact" /\ res'.input.v.form # "ok")
              => /\ res'.result = "Err"
                 /\ res'.err = IF res'.input.v.form = "bad_edn"
                               THEN "EdnParseError" ELSE "TxParseError"
                 /\ res'.events = <<>>
                 /\ UNCHANGED <<store, writer, connected, metadata, cache,
                                cache_lock, ip, hist>>]_vars

\* A Conn that has committed was handed text that is not a transaction.
C10_Witness ==
    /\ Returned(res, 1, {"conn.transact"}, "Err")
    /\ res.err = "TxParseError"
    /\ metadata[1].generation = 1

\* The errors of the transactor.
TransactorErrors == {"UnrecognizedEntid", "UnrecognizedIdent", "NotYetImplemented"}

\* C11: a successful Conn::transact gets as tx_id the first tx id after
\* bootstrap plus the number of tx ids committed on the Conn before it, and
\* commits exactly one more; a Conn::transact that fails, for whatever
\* reason, commits none and leaves the next tx id where it was.  So the
\* successful ones of a run of Conn::transact calls get consecutive tx_ids.
C11_TransactTxIdsConsecutive ==
    [][\A c \in AllConns :
          (res'.conn = c /\ res'.op = "conn.transact")
              => IF res'.result = "Ok"
                 THEN /\ res'.report.v.tx_id =
                            hist[c].initial["tx"] + hist[c].committed["tx"]
                      /\ hist'[c].committed["tx"] = hist[c].committed["tx"] + 1
                 ELSE /\ hist'[c].committed["tx"] = hist[c].committed["tx"]
                      /\ metadata'[c].partition_map["tx"] =
                            metadata[c].partition_map["tx"]]_vars

\* The second successful Conn::transact came right after one that the
\* transactor rejected, and got the second tx id after bootstrap.
C11_Witness ==
    /\ Returned(res, 1, {"conn.transact"}, "Ok")
    /\ res.prior.some
    /\ res.report.v.tx_id = TX0 + 2
    /\ hist[1].committed["tx"] = 2

\* C12: a Conn::transact that the transactor rejects has opened a SQLite
\* transaction and rolled it back, and leaves the store, the metadata and
\* the cache as they were, SQLite's write lock and the cache lock free and
\* no InProgress behind; the successful Conn::transact that follows
\* allocates its entids from the user index N of before the rejection.
C12_RejectedTransactRollsBack ==
    [][\A c \in AllConns :
          /\ (Returned(res', c, {"conn.transact"}, "Err") /\ res'.err \in TransactorErrors)
                => /\ {"sqlite.begin", "sqlite.rollback"} \subseteq Range(res'.events)
                   /\ store' = store
                   /\ metadata' = metadata
                   /\ cache' = cache
                   /\ writer' = 0
                   /\ cache_lock'[c] = "free"
                   /\ ~ip'[c].some
          /\ (Returned(res', c, {"conn.transact"}, "Ok") /\ hist[c].rejected.some)
                => LET N == hist[c].rejected.v
                       allocated == res'.report.v.allocated
                   IN  allocated = N .. (N + Cardinality(allocated) - 1)]_vars

\* A Conn::transact was rejected at user index N after the transactor had
\* allocated, and the successful one after it allocated N.
C12_Witness ==
    /\ Returned(res, 1, {"conn.transact"}, "Ok")
    /\ res.prior.some
    /\ res.prior.v \in res.report.v.allocated
    /\ res.prior.v > USER0

\* The attribute of a lookup is registered in the cache of Conn c.
Registered(c, attribute) ==
    LET a == GetEntid(metadata[c].schema.val, attribute)
    IN  a.some /\ a.v \in CachedAttributes(cache[c])

\* C13: a Conn::lookup_value_for_attribute for an attribute registered in
\* the cache returns what the same lookup returns from the store with no
\* attribute cached, in every reachable state.
C13_CachedLookupEqualsUncached ==
    \A c \in connected :
        (Returned(res, c, {"lookup_value_for_attribute"}, "Ok")
            /\ Registered(c, res.input.v[2]))
            => res.out.v =
                 LookupValueForAttribute(store, metadata[c].schema.val, AttributeCacherNew,
                                         res.input.v[1], res.input.v[2]).value

\* The step is a Conn::cache call on Conn c with this action.
CacheCall(c, cache_action) ==
    res'.conn = c /\ res'.op = "cache" /\ res'.input.v[2] = cache_action

\* C14: a Conn::cache with Deregister, on an attribute that the schema knows
\* and the cache does not hold, fails with NotCached and leaves the cache
\* as it was.
C14_DeregisterAbsentFails ==
    [][\A c \in AllConns :
          (CacheCall(c, "Deregister")
              /\ GetEntid(metadata[c].schema.val, res'.input.v[1]).some
              /\ ~Registered(c, res'.input.v[1]))
              => /\ res'.result = "Err"
                 /\ res'.err = "NotCached"
                 /\ cache' = cache]_vars

\* C15: a Conn::cache, Register or Deregister, with an ident that has no
\* entry in the Conn's current schema fails with UnknownAttribute carrying
\* the ident, leaves the cache as it was, and has taken and released the
\* cache's write lock.
C15_UnknownAttributeFails ==
    [][\A c \in AllConns :
          (res'.conn = c /\ res'.op = "cache"
              /\ ~GetEntid(metadata[c].schema.val, res'.input.v[1]).some)
              => /\ res'.result = "Err"
                 /\ res'.err = "UnknownAttribute"
                 /\ res'.out = Some(res'.input.v[1])
                 /\ cache' = cache
                 /\ "cache.write" \in Range(res'.events)
                 /\ res'.events[Len(res'.events)] = "cache.unlock"
                 /\ cache_lock'[c] = "free"]_vars

\* A Deregister of :k2, which the schema does not know, failed on a Conn
\* whose cache holds values of another attribute.
C15_Witness ==
    /\ Returned(res, 1, {"cache"}, "Err")
    /\ res.err = "UnknownAttribute"
    /\ res.input.v = <<"k2", "Deregister">>
    /\ cache[1].values # {}

\* C16: a Conn::cache with Register on an attribute the schema knows
\* succeeds, and a second Register of the same attribute right after it
\* succeeds too and leaves the cache as the first left it; and in every
\* state no attribute is in a cache in two modes.
C16_RegisterIdempotent ==
    /\ [](\A c \in connected : \A p, q \in cache[c].registered : p[1] = q[1] => p = q)
    /\ [][\A c \in AllConns :
             (CacheCall(c, "Register")
                 /\ GetEntid(metadata[c].schema.val, res'.input.v[1]).some)
                 => LET again == ConnCache(World', c, res'.input.v[1], "Register")
                    IN  /\ res'.result = "Ok"
                        /\ GetEntid(metadata[c].schema.val, res'.input.v[1]).v
                               \in CachedAttributes(cache'[c])
                        /\ again.result = "Ok"
                        /\ again.w.cache = cache']_vars

\* A Register has cached the values of an attribute that has some, beside
\* another attribute already held.
C16_Witness ==
    /\ Returned(res, 1, {"cache"}, "Ok")
    /\ res.input.v[2] = "Register"
    /\ Cardinality(cache[1].registered) = 2
    /\ \E d \in cache[1].values :
          GetEntid(metadata[1].schema.val, res.input.v[1]) = Some(d[2])

\* Another Conn than c has an InProgress open from begin_transaction.
OtherWriter(c) == \E d \in connected \ {c} : Writing(d)

\* C17: of the Conns on one store at most one has an InProgress from
\* begin_transaction open, and it holds SQLite's write lock; a
\* begin_transaction made while another Conn has one open returns Busy,
\* having touched neither its Conn's metadata nor its cache lock, and
\* leaves no InProgress and no SQLite transaction behind.
C17_OneWriterOthersBusy ==
    /\ [](\A c, d \in connected : (Writing(c) /\ Writing(d)) => (c = d /\ writer = c))
    /\ [][\A c \in AllConns :
             (res'.conn = c /\ res'.op = "begin_transaction" /\ OtherWriter(c))
                 => /\ res'.result = "Err"
                    /\ res'.err = "Busy"
                    /\ res'.events = <<"sqlite.begin">>
                    /\ metadata' = metadata
                    /\ cache_lock'[c] = "free"
                    /\ ~ip'[c].some
                    /\ writer' = writer
                    /\ store' = store]_vars

\* Conn 2's begin_transaction was refused while Conn 1's InProgress, which
\* has transacted, is open.
C17_Witness ==
    /\ Returned(res, 2, {"begin_transaction"}, "Err")
    /\ res.err = "Busy"
    /\ Writing(1)
    /\ ip[1].partition_map # metadata[1].partition_map
    /\ ~ip[2].some

\* C18: a begin_read made while another Conn has an InProgress from
\* begin_transaction open succeeds and leaves that writer as it is; and a
\* query inside an InProgressRead returns what the store held when the read
\* began, which is committed data only.
C18_ReadersRunBesideWriter ==
    /\ [](\A c \in connected :
            (Returned(res, c, {"in_progress.q_once"}, "Ok") /\ ip[c].some /\ ip[c].read)
                => res.out.v = QOnce(hist[c].cur.begin_store.v, ip[c].schema, res.input.v))
    /\ [][\A c \in AllConns :
             (res'.conn = c /\ res'.op = "begin_read" /\ OtherWriter(c))
                 => /\ res'.result = "Ok"
                    /\ ip'[c].some /\ ip'[c].read
                    /\ ip'[c].transaction.db = store
                    /\ writer' = writer
                    /\ \A d \in AllConns \ {c} : ip'[d] = ip[d]]_vars

\* Conn 2 began a read while Conn 1's InProgress had named an entity :k1
\* without committing, and its query for :k1 found nothing.
C18_Witness ==
    /\ Returned(res, 2, {"in_progress.q_once"}, "Ok")
    /\ ip[2].some /\ ip[2].read
    /\ res.input.v = [a |-> DbIdent, v |-> "k1"]
    /\ res.out.v.results = {}
    /\ Writing(1)
    /\ ip[1].transaction.db.datoms # {}
    /\ store.datoms = {}

\* The triple of a Metadata, the schema by its contents.
Triple(m) ==
    [generation |-> m.generation, partition_map |-> m.partition_map,
     schema |-> m.schema.val]

\* C19: in every state the metadata is, in all three fields, what the
\* commit that produced its generation published (what the Conn was made
\* with, at generation 0); and what is read under the mutex is that triple:
\* a begin hands the InProgress its three fields, current_schema its
\* schema, and a successful commit writes the three inside one holding of
\* the mutex.
C19_MetadataPublishedWhole ==
    /\ [](\A c \in connected : Triple(metadata[c]) = hist[c].published)
    /\ [][\A c \in AllConns :
             /\ Returned(res', c, {"begin_transaction", "begin_read"}, "Ok")
                   => [generation |-> ip'[c].generation,
                       partition_map |-> ip'[c].partition_map,
                       schema |-> ip'[c].schema] = hist[c].published
             /\ Returned(res', c, {"current_schema"}, "Ok")
                   => res'.out.v.val = hist[c].published.schema
             /\ Returned(res', c, {"commit"}, "Ok")
                   => \E i, j, k \in DOMAIN res'.events :
                         /\ i < j /\ j < k
                         /\ res'.events[i] = "metadata.lock"
                         /\ res'.events[j] = "metadata.write"
                         /\ res'.events[k] = "metadata.unlock"]_vars

\* A read began on a Conn at generation 2 whose commits had changed both
\* the partition map and the schema.
C19_Witness ==
    /\ Returned(res, 1, {"begin_read"}, "Ok")
    /\ ip[1].generation = 2
    /\ ip[1].schema # Bootstrap.schema
    /\ ip[1].partition_map["user"] > USER0
    /\ metadata[1].schema.arc = 2

\* What a schema handle of Conn c denotes now: the contents of the
\* allocation it points to.  An allocation that the metadata no longer
\* points to is reached through handles only, and a handle cannot write.
Deref(c, handle) ==
    IF metadata[c].schema.arc = handle.arc THEN metadata[c].schema.val ELSE handle.val

\* C20: a handle that current_schema returned denotes, in every later
\* state, the schema contents it denoted when it was returned; a commit that
\* changes the schema puts a new allocation in the metadata.
C20_SchemaHandleImmutable ==
    /\ [](\A c \in connected :
            hist[c].handle.some => Deref(c, hist[c].handle.v) = hist[c].handle.v.val)
    /\ [][\A c \in AllConns :
             metadata'[c].schema.val # metadata[c].schema.val
                 => metadata'[c].schema.arc # metadata[c].schema.arc]_vars

\* A handle was taken at generation 0, and commits have since changed the
\* schema twice.
C20_Witness ==
    /\ hist[1].handle.some
    /\ hist[1].handle.v.arc = 0
    /\ metadata[1].schema.arc = 2
    /\ metadata[1].schema.val # hist[1].handle.v.val

\* The calls that begin a transaction on a Store.
StoreBegins == {"store.begin_read", "store.begin_transaction"}

\* C21: a Store has at most one transaction in flight, InProgress or
\* InProgressRead: in every state at most one transaction begun on it has
\* not ended, and a begin_read or begin_transaction on the Store is made
\* only when the one before it has been committed, rolled back or dropped.
C21_StoreOneInFlight ==
    /\ [](\A c \in connected :
            /\ hist[c].in_flight <= 1
            /\ hist[c].in_flight = 1 <=> ip[c].some)
    /\ [][\A c \in AllConns :
             (res'.conn = c /\ res'.op \in StoreBegins)
                 => /\ ~ip[c].some
                    /\ hist[c].in_flight = 0]_vars

\* A read began on the Store after its first transaction had transacted
\* and committed.
C21_Witness ==
    /\ Returned(res, 1, {"store.begin_read"}, "Ok")
    /\ hist[1].in_flight = 1
    /\ ip[1].some /\ ip[1].read
    /\ hist[1].committed["user"] > 0

\* Conn c has an InProgressRead out.
Reading(c) == c \in connected /\ ip[c].some /\ ip[c].read

\* C22: no call made on an InProgressRead is a commit, a rollback or a
\* transact; while it is open, and in the step that ends it, the Conn's
\* metadata and the persisted store are what they were when begin_read was
\* called.
C22_ReadLeavesNoTrace ==
    /\ [](\A c \in connected :
            Reading(c) => /\ metadata[c] = hist[c].cur.begin_meta.v
                          /\ store = hist[c].cur.begin_store.v)
    /\ [][\A c \in AllConns :
             (Reading(c) /\ res'.conn = c)
                 => /\ res'.op \in {"in_progress.q_once", "drop",
                                    "in_progress.lookup_values_for_attribute"}
                    /\ metadata'[c] = hist[c].cur.begin_meta.v
                    /\ store' = hist[c].cur.begin_store.v
                    /\ Ends(c) <=> res'.op = "drop"]_vars

\* An InProgressRead begun over a store that holds committed datoms, on a
\* Conn at generation 1, has been dropped.
C22_Witness ==
    /\ Returned(res, 1, {"drop"}, "Ok")
    /\ res.read
    /\ ~ip[1].some
    /\ metadata[1].generation = 1
    /\ store.datoms # {}

\* C23: in every state an InProgress, or InProgressRead, carries the
\* generation its Conn's metadata has, so whenever commit is called the two
\* are equal, and no commit, alone or inside Conn::transact, returns Race:
\* every InProgress::commit gets as far as SQLite's COMMIT.
C23_CommitNeverRaces ==
    /\ [](\A c \in connected :
            ip[c].some => ip[c].generation = metadata[c].generation)
    /\ [][\A c \in AllConns :
             (res'.conn = c /\ res'.op \in Commits)
                 => /\ res'.err # "Race"
                    /\ res'.op = "commit" =>
                           Range(res'.events)
                               \cap {"sqlite.commit", "sqlite.commit.failed"} # {}]_vars

\* Conn 2 committed its first transaction after Conn 1, on the same store,
\* had committed two.
C23_Witness ==
    /\ Returned(res, 2, {"commit"}, "Ok")
    /\ metadata[1].generation = 2
    /\ metadata[2].generation = 1

\* C24: a commit made with a snapshot generation other than the metadata's
\* returns Race without having tried SQLite's COMMIT: the store and the
\* metadata are as before, the SQLite transaction has been rolled back by
\* the drop of the InProgress, which is gone, and its locks are released.
C24_StaleCommitFailsWithRace ==
    [][\A c \in AllConns :
          (res'.conn = c /\ res'.op = "commit" /\ res'.input.some
              /\ res'.input.v # metadata[c].generation)
              => /\ res'.result = "Err"
                 /\ res'.err = "Race"
                 /\ Range(res'.events) \cap {"sqlite.commit", "sqlite.commit.failed",
                                              "metadata.write"} = {}
                 /\ "sqlite.rollback" \in Range(res'.events)
                 /\ store' = store
                 /\ metadata' = metadata
                 /\ writer' = 0
                 /\ ~ip'[c].some
                 /\ cache_lock'[c] = "free"]_vars

\* On a Conn at generation 1, an InProgress that had transacted was
\* committed with another snapshot generation, and the commit returned Race.
C24_Witness ==
    /\ Returned(res, 1, {"commit"}, "Err")
    /\ res.err = "Race"
    /\ res.input.some
    /\ res.transacts > 0
    /\ metadata[1].generation = 1
    /\ ~ip[1].some

\* C30: a successful commit leaves the InProgress's draft partition map in
\* the metadata.  If the draft schema differs from the contents of the
\* metadata's schema handle, the metadata gets a new handle whose contents
\* are the draft; if not, the metadata keeps the handle it had, and
\* current_schema returns after the commit the handle it returned before.
C30_CommitPublishesDraft ==
    [][\A c \in AllConns :
          Returned(res', c, {"commit"}, "Ok")
              => /\ metadata'[c].partition_map = ip[c].partition_map
                 /\ IF ip[c].schema # metadata[c].schema.val
                    THEN /\ metadata'[c].schema.val = ip[c].schema
                         /\ metadata'[c].schema.arc # metadata[c].schema.arc
                         /\ CurrentSchema(World', c).out # CurrentSchema(World, c).out
                    ELSE /\ metadata'[c].schema = metadata[c].schema
                         /\ CurrentSchema(World', c).out
                                = CurrentSchema(World, c).out]_vars

\* The second commit of a Conn moved the partition map and kept the schema
\* handle that the first commit had made.
C30_Witness ==
    /\ Returned(res, 1, {"commit"}, "Ok")
    /\ res.transacts > 0
    /\ metadata[1].generation = 2
    /\ metadata[1].schema.arc = 1
    /\ metadata[1].partition_map["user"] > USER0

\* Thread t holds the cache lock of Conn c, shared or exclusive.
HoldsCache(t, c) == rwlock[c].writer = t \/ t \in rwlock[c].readers

\* C25, as stated: no thread takes the metadata mutex while it holds the
\* cache lock.
C25_MetadataBeforeCache ==
    [][\A t \in Threads : \A c \in AllConns :
          (mutex[c] # t /\ mutex'[c] = t) => ~HoldsCache(t, c)]_vars

\* C25, amended: no thread takes the cache lock while it holds the metadata
\* mutex, so a thread that holds both took the cache lock first; and the
\* threads that hold both are inside commit, under the InProgress's write
\* guard, or inside a Conn-level lookup, under its read guard.
C25_CacheBeforeMetadata ==
    /\ [](\A t \in Threads : \A c \in AllConns :
            (mutex[c] = t /\ HoldsCache(t, c))
                => thread[t].op \in {"commit", "lookup_value_for_attribute"})
    /\ [][\A t \in Threads : \A c \in AllConns :
             (~HoldsCache(t, c) /\ HoldsCache(t, c)') => mutex[c] # t]_vars

\* Thread 2, inside a lookup beside thread 1's, holds the read guard it
\* took first and the metadata mutex it took second.
C25_Witness ==
    /\ thread[2].op = "lookup_value_for_attribute"
    /\ mutex[1] = 2
    /\ rwlock[1].readers = {1, 2}

\* Thread t is inside a call and the lock it is to take next cannot be had.
Waiting(t) ==
    thread[t].op # "none" /\ ~Available(thread[t].conn, NextEvent(t))

\* The threads that hold the lock thread t is waiting for.
Holders(t) ==
    LET c == thread[t].conn
        ev == NextEvent(t)
    IN  CASE ev = "metadata.lock" -> {mutex[c]}
          [] ev = "cache.read" -> {rwlock[c].writer}
          [] ev = "cache.write" -> ({rwlock[c].writer} \cup rwlock[c].readers) \ {0}
          [] OTHER -> {}

\* Some threads each wait for a lock that a thread among them holds.
Deadlocked ==
    \E S \in SUBSET Threads :
        /\ S # {}
        /\ \A t \in S : Waiting(t) /\ Holders(t) \cap S # {}

\* C26: in no state reached by threads that call begin_read,
\* begin_transaction, commit, rollback, current_schema, q_once,
\* lookup_value_for_attribute and cache on one Conn is there a set of
\* threads each waiting for the metadata mutex or the cache lock while a
\* thread of the set holds it.
C26_NoDeadlock == ~Deadlocked

\* Thread 2, inside a lookup and holding the cache read guard, waits for
\* the metadata mutex, which thread 1 holds inside a q_once.
C26_Witness ==
    /\ Waiting(2)
    /\ thread[2].op = "lookup_value_for_attribute"
    /\ HoldsCache(2, 1)
    /\ thread[1].op = "q_once"
    /\ mutex[1] = 1

\* In this step a thread returns from a call of `op` on Conn c.
Returns(c, op) ==
    \E t \in Threads :
        /\ thread[t].op = op /\ thread[t].conn = c
        /\ thread'[t].op = "none"

\* The thread that has the InProgress of Conn c.
Owner(c) == CHOOSE t \in Threads : thread[t].owns = c

\* No thread but t holds the cache lock of Conn c, and t holds it for
\* writing.
HoldsCacheAlone(t, c) ==
    /\ rwlock[c].writer = t
    /\ rwlock[c].readers = {}
    /\ cache_lock[c] = "write"

\* C27: in every state from the return of begin_transaction to the end of
\* its InProgress by commit, rollback or drop, the thread that has the
\* InProgress holds the cache lock for writing and no thread has it for
\* reading; the lock is released in the step that ends the InProgress.
C27_WriterHoldsCacheLock ==
    /\ [](\A c \in connected :
            Writing(c) => /\ \E t \in Threads : thread[t].owns = c
                          /\ HoldsCacheAlone(Owner(c), c))
    /\ [][\A c \in AllConns :
             (Writing(c) /\ Ends(c))
                 => /\ res'.op \in {"commit", "rollback", "drop"}
                    /\ rwlock'[c] = [writer |-> 0, readers |-> {}]]_vars

\* Thread 1 is inside commit, holding the metadata mutex, on an InProgress
\* that has transacted and still holds the cache lock for writing.
C27_Witness ==
    /\ Writing(1)
    /\ thread[1].op = "commit"
    /\ mutex[1] = 1
    /\ rwlock[1].writer = 1
    /\ ip[1].partition_map # metadata[1].partition_map

\* C28: begin_read takes the cache lock for writing as begin_transaction
\* does: from its return to the drop of the InProgressRead the thread that
\* has it holds the cache lock for writing and no thread has it for
\* reading; and a Conn has at most one InProgress or InProgressRead, no
\* begin being made while it has one.
C28_ReadHoldsCacheWriteLock ==
    /\ [](\A c \in connected :
            /\ Reading(c) => /\ \E t \in Threads : thread[t].owns = c
                             /\ HoldsCacheAlone(Owner(c), c)
            /\ hist[c].in_flight <= 1
            /\ Cardinality({t \in Threads : thread[t].owns = c}) <= 1)
    /\ [][\A c \in AllConns :
             /\ (Returns(c, "begin_read") /\ res'.result = "Ok")
                   => /\ ~ip[c].some
                      /\ Reading(c)'
                      /\ "cache.write" \in Range(res'.events)
             /\ (Reading(c) /\ Ends(c))
                   => rwlock'[c] = [writer |-> 0, readers |-> {}]]_vars

\* Thread 2 has an InProgressRead on a Conn whose cache holds values, and
\* holds the cache lock for writing while thread 1 is outside every call.
C28_Witness ==
    /\ Reading(1)
    /\ thread[2].owns = 1
    /\ rwlock[1].writer = 2
    /\ thread[1].op = "none"
    /\ cache[1].registered # {}

\* The operations thread t has performed in the call it is inside, and
\* those it has yet to perform.
Performed(t) ==
    SubSeq(Run(World, thread[t].conn, thread[t].op, thread[t].input).events,
           1, thread[t].pc - 1)

ToPerform(t) ==
    LET events == Run(World, thread[t].conn, thread[t].op, thread[t].input).events
    IN  SubSeq(events, thread[t].pc, Len(events))

\* e comes before f in the sequence, and both are in it once.
Before(events, e, f) ==
    \E i, j \in DOMAIN events :
        /\ i < j /\ events[i] = e /\ events[j] = f
        /\ \A k \in DOMAIN events : (events[k] = e => k = i) /\ (events[k] = f => k = j)

\* C29: a commit takes the metadata mutex once, makes SQLite's COMMIT under
\* it and writes the metadata after the COMMIT and before the unlock; a
\* thread that has made the COMMIT and has the metadata still to write
\* holds the mutex.  The generation advances only in a commit whose COMMIT
\* SQLite accepted, the store then holding the transaction's writes; a
\* commit whose COMMIT fails writes no metadata.
C29_CommitThenPublishUnderMutex ==
    /\ [](\A t \in Threads :
            thread[t].op = "commit"
                => /\ ("sqlite.commit" \in Range(Performed(t))
                          /\ "metadata.write" \in Range(ToPerform(t)))
                       => mutex[thread[t].conn] = t
                   /\ "metadata.write" \in Range(Performed(t))
                       => "sqlite.commit" \in Range(Performed(t)))
    /\ [][\A c \in AllConns :
             /\ Returns(c, "commit")
                   => IF res'.result = "Ok"
                      THEN /\ Before(res'.events, "metadata.lock", "sqlite.commit")
                           /\ Before(res'.events, "sqlite.commit", "metadata.write")
                           /\ Before(res'.events, "metadata.write", "metadata.unlock")
                           /\ metadata'[c].generation = metadata[c].generation + 1
                           /\ store' = ip[c].transaction.db
                      ELSE /\ "metadata.write" \notin Range(res'.events)
                           /\ metadata' = metadata
                           /\ store' = store
             /\ metadata'[c].generation # metadata[c].generation
                   => /\ Returns(c, "commit")
                      /\ "sqlite.commit" \in Range(res'.events)
                      /\ store' = ip[c].transaction.db]_vars

\* Thread 1, inside the commit of an InProgress that has transacted, has
\* made SQLite's COMMIT and, holding the mutex, is about to write the
\* metadata.
C29_Witness ==
    /\ thread[1].op = "commit"
    /\ "sqlite.commit" \in Range(Performed(1))
    /\ NextEvent(1) = "metadata.write"
    /\ mutex[1] = 1
    /\ ip[1].partition_map # metadata[1].partition_map

\* C31: a successful transact on an InProgress takes its tx id and its new
\* entids from the draft partition map the transacts before it left, and
\* resolves its attributes against the draft schema they left: the entids
\* it allocates are none of those that earlier transacts of the InProgress
\* allocated, and it leaves the draft's user index advanced by their number.
\* A successful commit advances the metadata's user index by the number of
\* entids allocated over all the transacts of the InProgress.
C31_TransactsChainInOneInProgress ==
    [][\A c \in AllConns :
          /\ Returned(res', c, Transacts, "Ok")
                => LET allocated == res'.report.v.allocated
                   IN  /\ allocated \cap hist[c].cur.entids = {}
                       /\ \A e \in allocated : e >= ip[c].partition_map["user"]
                       /\ res'.report.v.tx_id = ip[c].partition_map["tx"]
                       /\ ip'[c].partition_map["user"]
                              = ip[c].partition_map["user"] + Cardinality(allocated)
                       /\ ip'[c].partition_map["tx"] = ip[c].partition_map["tx"] + 1
                       /\ ip[c].schema \subseteq ip'[c].schema
          /\ Returned(res', c, {"commit"}, "Ok")
                => /\ Cardinality(hist[c].cur.entids) = hist[c].cur.alloc["user"]
                   /\ metadata'[c].partition_map["user"]
                          = metadata[c].partition_map["user"]
                              + Cardinality(hist[c].cur.entids)]_vars

\* An InProgress whose first transact named a new entity :k1 and whose
\* second gave another new entity a value for :k1 has committed: the user
\* index is two past where the Conn began.
C31_Witness ==
    /\ Returned(res, 1, {"commit"}, "Ok")
    /\ res.transacts = 2
    /\ metadata[1].generation = 1
    /\ metadata[1].partition_map["user"] = USER0 + 2
    /\ \E d \in store.datoms : d[1] = USER0 + 1 /\ d[3] = "100"

\* The attribute of a lookup is registered in the cache that the InProgress
\* of Conn c holds.
RegisteredInProgress(c, attribute) ==
    LET a == GetEntid(ip[c].schema, attribute)
    IN  a.some /\ a.v \in CachedAttributes(cache[c])

\* C32: an InProgress::lookup_values_for_attribute for an attribute
\* registered in the cache returns the values that the open SQLite
\* transaction holds for it, the InProgress's own uncommitted writes
\* included.
C32_InProgressLookupSeesOwnWrites ==
    \A c \in AllConns :
        (/\ Returned(res, c, {"in_progress.lookup_values_for_attribute"}, "Ok")
         /\ ip[c].some
         /\ RegisteredInProgress(c, res.input.v[2]))
            => res.out.v =
                 LookupValuesForAttribute(ip[c].transaction.db, ip[c].schema,
                                          AttributeCacherNew,
                                          res.input.v[1], res.input.v[2]).values

\* C33: with two Conns on the database file, each with its own connection,
\* no tx id and no entid that a committed transaction of one Conn was given
\* is given to a committed transaction of the other.
C33_ConnsAllocateDistinctIds ==
    \A c, d \in AllConns :
        c # d => /\ hist[c].ids.tx \cap hist[d].ids.tx = {}
                 /\ hist[c].ids.user \cap hist[d].ids.user = {}

\* Thread t is inside a call and waits for the cache lock.
WaitsForCache(t) ==
    Waiting(t) /\ NextEvent(t) \in {"cache.read", "cache.write"}

\* C34: the step that ends an InProgress -- a commit that succeeds, that
\* finds a race or that SQLite refuses, a rollback, a drop -- leaves the
\* cache lock with no writer, the metadata mutex free and the connection
\* with no open transaction; and so a thread that waits for the cache lock
\* gets past it, and a thread that has called begin_transaction returns
\* from it with an InProgress.
C34_EveryEndReleases ==
    /\ [][\A c \in AllConns :
             Ends(c) => /\ rwlock'[c].writer = 0
                        /\ cache_lock'[c] = "free"
                        /\ mutex'[c] = 0
                        /\ writer' = 0
                        /\ hist'[c].in_flight = 0
                        /\ \A t \in Threads : thread'[t].owns # c]_vars
    /\ \A t \in Threads :
          /\ WaitsForCache(t) ~> ~Waiting(t)
          /\ thread[t].op = "begin_transaction"
                ~> (thread[t].op = "none" /\ thread[t].owns \in connected)

\* A commit found a race and ended its InProgress, and a thread is inside
\* the begin_transaction that followed, about to take the cache lock that
\* the InProgress held.
C34_Witness ==
    \E t \in Threads :
        /\ res.op = "commit_at" /\ res.err = "Race"
        /\ thread[t].op = "begin_transaction"
        /\ NextEvent(t) = "cache.write"
        /\ ~Waiting(t)

\* C35: an .open of a path replaces the Repl's store exactly when the
\* Repl's path is empty or is not the path given and the new store can be
\* opened: the Repl then has the path given and a store newly opened on
\* it.  An .open of the non-empty path the Repl has keeps the store.  A
\* .close puts a new, empty in-memory store in its place whatever the path
\* was.  When the new store cannot be opened, path and store are as they
\* were, and .open returns the error.
C35_OpenReplacesOrKeeps ==
    [][LET cmd == repl'.last
           replaced == /\ repl'.store.id = repl.opened + 1
                       /\ repl'.store.path = cmd.path
                       /\ repl'.path = cmd.path
           kept == repl'.store = repl.store /\ repl'.path = repl.path
       IN  /\ cmd.op = "open" =>
                 IF repl.path # "" /\ cmd.path = repl.path
                 THEN kept /\ cmd.result = "Ok"
                 ELSE IF cmd.opens
                 THEN replaced /\ cmd.result = "Ok"
                 ELSE kept /\ cmd.result = "Err"
           /\ cmd.op = "close" =>
                 IF cmd.opens
                 THEN replaced /\ repl'.path = "" /\ repl'.store.datoms = 0
                 ELSE kept]_vars

\* The Repl had a file open and transacted to it, an .open of another file
\* failed, and the Repl still has the first file and the store it
\* transacted on.
C35_Witness ==
    /\ repl.last.op = "open" /\ repl.last.result = "Err"
    /\ repl.path = "a" /\ repl.last.path = "b"
    /\ repl.store.path = "a" /\ repl.store.datoms = 1
====
